---- MODULE Spec2Model ----
(***************************************************************************)
(* Yoshimura/Miura pattern generator: the hexagonal "plastic" engine of    *)
(* yoshimora_miura_plastic.py (Branch, BranchTape, BuildingBlockYoshimora, *)
(* YoshimoraTesselation) over the geometry kernel of utils.py and a        *)
(* drawing sink (dxf drawing: add / save).                                 *)
(*                                                                         *)
(* Arithmetic.  The program computes in floating point; the model computes *)
(* the same expressions exactly.  A length is an integer number of         *)
(* 1/Scale units.  A coordinate is a pair <<p, q>> standing for            *)
(* (p + q*sin(theta)) / Scale, where theta is the fold angle and           *)
(* cos(theta) = cn/cd is rational.  An angle is <<th, t, q>> standing for  *)
(* t*theta + 90*q degrees, th = <<cn, cd>> naming theta by its cosine.     *)
(***************************************************************************)
EXTENDS Integers, Sequences, FiniteSets, TLC

\* ------------------------------------------------------------------ bounds
MaxRows == 3
MaxCols == 3
MaxBeamCount == 2

\* ------------------------------------------------- fixed-point arithmetic
\* 1/100 of a drawing unit, halved (x / 2) and divided by cd in {2, 5}.
Hundredth == 2 * 10
Scale == 100 * Hundredth

\* Defaults of the keyword arguments, in hundredths of a drawing unit.
PanelGapDefault == 120
BeamGapDefault == 233
BeamLengthDefault == 633
BeamWidthDefault == 483

Fx(h) == h * Hundredth

Zero == <<0, 0>>
Num(p) == <<p, 0>>
NumAdd(a, b) == <<a[1] + b[1], a[2] + b[2]>>
NumNeg(a) == <<0 - a[1], 0 - a[2]>>
NumSub(a, b) == NumAdd(a, NumNeg(b))

\* The fold angles of the model, by cosine: 60 degrees, acos(4/5), acos(3/5).
Theta60 == <<1, 2>>
Theta37 == <<4, 5>>
Theta53 == <<3, 5>>
Thetas == {Theta60, Theta37, Theta53}
NoTheta == <<1, 1>>

\* Angles: a plain number of degrees (a multiple of 90), theta, and the
\* sums and differences the program forms of them.
Deg(d) == <<NoTheta, 0, d \div 90>>
Theta(th) == <<th, 1, 0>>
AngAdd(a, d) == <<a[1], a[2], a[3] + (d \div 90)>>
AngNeg(a) == <<a[1], 0 - a[2], 0 - a[3]>>
DegMinus(d, a) == AngAdd(AngNeg(a), d)

\* math.cos(math.radians(theta)) as a scalar factor: len * cos(theta).
CosScalar(len, th) == (len * th[1]) \div th[2]

\* len * cos(angle) and len * sin(angle) for angle = t*theta + 90*q.
CosPart(len, a) == IF a[2] = 0 THEN Num(len) ELSE Num(CosScalar(len, a[1]))
SinPart(len, a) == <<0, len * a[2]>>
MulCos(len, a) ==
    CASE a[3] % 4 = 0 -> CosPart(len, a)
      [] a[3] % 4 = 1 -> NumNeg(SinPart(len, a))
      [] a[3] % 4 = 2 -> NumNeg(CosPart(len, a))
      [] a[3] % 4 = 3 -> SinPart(len, a)
MulSin(len, a) ==
    CASE a[3] % 4 = 0 -> SinPart(len, a)
      [] a[3] % 4 = 1 -> CosPart(len, a)
      [] a[3] % 4 = 2 -> NumNeg(SinPart(len, a))
      [] a[3] % 4 = 3 -> NumNeg(CosPart(len, a))

\* x / 2 on floats.
Half(x) == x \div 2

\* ------------------------------------------------------------- utils.py
end_point_of_line(starting_point, length, angle) ==
    << NumAdd(starting_point[1], MulCos(length, angle)),
       NumAdd(starting_point[2], MulSin(length, angle)) >>

vector_difference(vector1, vector2) ==
    << NumSub(vector1[1], vector2[1]), NumSub(vector1[2], vector2[2]) >>

\* Mutant: a vector with one zero component takes the division by zero.
MutantIsZeroVector_Either(v) == v[1] = Zero \/ v[2] = Zero

\* A vector scaled to unit length cannot be written in the coordinates above
\* (its norm is a square root): normalize_vector(v) is kept as the pair
\* <<v, k>>, standing for k/Scale times the unit vector along v.  A zero
\* vector divides by zero in the program.
IsZeroVector(v) == v[1] = Zero /\ v[2] = Zero
normalize_vector(vector) == <<vector, Scale>>
vector_multiply(unit, scalar) == <<unit[1], (unit[2] * scalar) \div Scale>>
\* point + scaled unit vector: the point with the displacement kept beside it.
vector_sum(vector1, vector2) == <<vector1[1], vector1[2], vector2>>

\* ---------------------------------------------------------- drawing sink
\* dxf.line / dxf.polyline: what drawing.add receives.  `ord` is bookkeeping
\* of the model, not part of the drawing: <<part, side, index>> of the
\* statement that made the primitive (part 0 = branch, 1 = centre support;
\* side 0 = angle + 90 or none, 1 = angle - 90).
None == <<>>
\* [True for _ in range(n)], [True] * n
AllTrue(n) == [k \in 1..n |-> TRUE]
Line(p0, p1, ord) == [kind |-> "line", pts |-> <<p0, p1>>, ord |-> ord]
Polyline(points, ord) == [kind |-> "polyline", pts |-> points, ord |-> ord]

PartBranch == 0
PartSupport == 1
SideOf(b, angle) == IF angle[3] - b.angle[3] = 1 THEN 0 ELSE 1

\* ------------------------------------- yoshimora_miura_plastic.py: Branch
Branch(cls, position, length, angle, beam_count, panel_gap, beam_gap, beam_length, beam_width) ==
    [ cls |-> cls,
      position |-> position,
      end_point |-> end_point_of_line(position, length, angle),
      angle |-> angle,
      length |-> length,
      beam_count |-> beam_count,
      panel_gap |-> panel_gap,
      beam_gap |-> beam_gap,
      beam_length |-> beam_length,
      beam_width |-> beam_width ]

\* Mutant: the division by 2 forgotten.
Mutant_get_extremity_length_NotHalved(b) ==
    b.length - b.beam_length * b.beam_count - b.beam_gap * (b.beam_count - 1)

_get_extremity_length(b) ==
    Half(b.length - b.beam_length * b.beam_count
                  - b.beam_gap * (b.beam_count - 1))

\* Mutant: the extremity lines start a whole panel_gap off the axis.
Mutant_draw_extremity_line_FullGap(b, angle, extremity_length) ==
    LET start1 == end_point_of_line(b.position, b.panel_gap, angle)
        end1 == end_point_of_line(start1, extremity_length, b.angle)
        start2 == end_point_of_line(b.end_point, b.panel_gap, angle)
        end2 == end_point_of_line(start2, extremity_length,
                                  AngAdd(b.angle, -180))
    IN  << Line(start1, end1, <<PartBranch, SideOf(b, angle), 0>>),
           Line(start2, end2, <<PartBranch, SideOf(b, angle), 1>>) >>

\* The two extremity lines of one side, in the order they are added.
_draw_extremity_line(b, angle, extremity_length) ==
    LET start1 == end_point_of_line(b.position, Half(b.panel_gap), angle)
        end1 == end_point_of_line(start1, extremity_length, b.angle)
        start2 == end_point_of_line(b.end_point, Half(b.panel_gap), angle)
        end2 == end_point_of_line(start2, extremity_length,
                                  AngAdd(b.angle, -180))
    IN  << Line(start1, end1, <<PartBranch, SideOf(b, angle), 0>>),
           Line(start2, end2, <<PartBranch, SideOf(b, angle), 1>>) >>

_get_beam_starting_point(b, angle, extremity_length) ==
    LET start_point == end_point_of_line(b.position, Half(b.panel_gap), angle)
    IN  end_point_of_line(start_point, extremity_length, b.angle)

_get_beam_points(b, start_point, angle) ==
    LET beam_point1 == end_point_of_line(
            start_point, Half(b.beam_width - b.panel_gap), angle)
        beam_point2 == end_point_of_line(beam_point1, b.beam_length, b.angle)
        beam_point3 == end_point_of_line(
            beam_point2, Half(b.beam_width - b.panel_gap), AngAdd(angle, 180))
    IN  <<beam_point1, beam_point2, beam_point3>>

\* One beam unit: the polyline added and the value returned (None for the
\* last unit, whose branch of the if has no return statement).
_draw_beam(b, start_point_beam, angle, i) ==
    LET bp == _get_beam_points(b, start_point_beam, angle)
        beam_point4 == end_point_of_line(bp[3], b.beam_gap, b.angle)
        ord == <<PartBranch, SideOf(b, angle), 2 + i>>
    IN  IF i < b.beam_count - 1
        THEN [ added |-> Polyline(<<start_point_beam, bp[1], bp[2], bp[3],
                                    beam_point4>>, ord),
               ret |-> beam_point4 ]
        ELSE [ added |-> Polyline(<<start_point_beam, bp[1], bp[2], bp[3]>>,
                                  ord),
               ret |-> None ]

\* Mutant: range(self.beam_count - 1), the last unit never drawn.
RECURSIVE MutantDrawBeams_OffByOne(_, _, _, _)
MutantDrawBeams_OffByOne(b, start_point_beam, angle, i) ==
    IF i >= b.beam_count - 1 THEN <<>>
    ELSE LET r == _draw_beam(b, start_point_beam, angle, i)
         IN  <<r.added>> \o MutantDrawBeams_OffByOne(b, r.ret, angle, i + 1)

\* for i in range(self.beam_count): the polylines of one side.
RECURSIVE DrawBeams(_, _, _, _)
DrawBeams(b, start_point_beam, angle, i) ==
    IF i >= b.beam_count THEN <<>>
    ELSE LET r == _draw_beam(b, start_point_beam, angle, i)
         IN  <<r.added>> \o DrawBeams(b, r.ret, angle, i + 1)

\* Mutant: the two sides in the other order.
MutantBranchSides_Swapped(b) == << AngAdd(b.angle, -90), AngAdd(b.angle, 90) >>

\* for angle in (self.angle + 90, self.angle - 90)
BranchSides(b) == << AngAdd(b.angle, 90), AngAdd(b.angle, -90) >>

DrawSide(b, angle) ==
    LET length_extremity_lines == _get_extremity_length(b)
    IN  _draw_extremity_line(b, angle, length_extremity_lines)
        \o DrawBeams(b, _get_beam_starting_point(b, angle,
                                                 length_extremity_lines),
                     angle, 0)

\* Branch._draw_branch: everything added before the one drawing.save().
_draw_branch(b) ==
    DrawSide(b, BranchSides(b)[1]) \o DrawSide(b, BranchSides(b)[2])

\* --------------------------------- yoshimora_miura_plastic.py: BranchTape
BranchTape_get_beam_starting_point(b, extremity_length) ==
    LET start_point == end_point_of_line(b.position, Half(b.beam_width),
                                         AngAdd(b.angle, -90))
    IN  end_point_of_line(start_point, extremity_length, b.angle)

BranchTape_get_beam_points(b, start_point_beam) ==
    LET beam_point1 == end_point_of_line(start_point_beam, b.beam_width,
                                         AngAdd(b.angle, 90))
        beam_point2 == end_point_of_line(beam_point1, b.beam_length, b.angle)
        beam_point3 == end_point_of_line(beam_point2, b.beam_width,
                                         AngAdd(b.angle, -90))
        beam_point4 == end_point_of_line(beam_point3, b.beam_length,
                                         AngAdd(b.angle, 180))
    IN  <<beam_point1, beam_point2, beam_point3, beam_point4>>

RECURSIVE TapeBeams(_, _, _)
TapeBeams(b, start_point_beam, k) ==
    IF k >= b.beam_count THEN <<>>
    ELSE LET bp == BranchTape_get_beam_points(b, start_point_beam)
         IN  << Polyline(<<start_point_beam, bp[1], bp[2], bp[3], bp[4]>>,
                         <<PartBranch, 0, k>>) >>
             \o TapeBeams(b, end_point_of_line(start_point_beam,
                                               b.beam_length + b.beam_gap,
                                               b.angle), k + 1)

BranchTape_draw_branch(b) ==
    TapeBeams(b, BranchTape_get_beam_starting_point(
                     b, _get_extremity_length(b)), 0)

\* draw_yoshimora.py's BranchTape.draw_branch reads self.start_point, which
\* Branch.__init__ never sets (it sets self.position): AttributeError before
\* anything is added.
BranchRaises(b) == b.cls = "draw_yoshimora.BranchTape"

\* branch(): __call__ dispatches on the class.
BranchCall(b) ==
    IF b.cls = "BranchTape" THEN BranchTape_draw_branch(b)
    ELSE _draw_branch(b)

\* Mutant: one drawing.save() per side of the branch.
MutantBranchSaves_PerSide(b, n) ==
    IF b.cls = "BranchTape" THEN <<n + Len(BranchCall(b))>>
    ELSE <<n + Len(DrawSide(b, BranchSides(b)[1])), n + Len(BranchCall(b))>>

\* The drawing.save() calls of branch(): the length of the drawing at each
\* of them, n being its length before the call.
BranchSaves(b, n) == <<n + Len(BranchCall(b))>>

\* ------------------- yoshimora_miura_plastic.py: BuildingBlockYoshimora
BuildingBlockYoshimora(center, radius, length, th, beam_count, activated_branch, panel_gap, beam_gap, beam_length, beam_width, tape, module) ==
    [ module |-> module,
      center |-> center,
      radius |-> radius,
      length |-> length,
      angle |-> th,
      beam_count |-> beam_count,
      activated_branch |-> activated_branch,
      panel_gap |-> panel_gap,
      beam_gap |-> beam_gap,
      beam_length |-> beam_length,
      beam_width |-> beam_width,
      tape |-> tape,
      angles |-> << Deg(0),
                    Theta(th),
                    DegMinus(180, Theta(th)),
                    Deg(180),
                    AngAdd(Theta(th), 180),
                    AngNeg(Theta(th)) >> ]

\* updated_yoshimora.py: the block of eight directions 0, theta, 90,
\* 180 - theta, 180, 180 + theta, -90, -theta.
BuildingBlockUpdatedYoshimora(center, radius, length, th, count_beam, activated_branch, pannel_gap, beam_gap, beam_length, beam_width, tape) ==
    [ BuildingBlockYoshimora(center, radius, length, th, count_beam,
                             activated_branch, pannel_gap, beam_gap,
                             beam_length, beam_width, tape,
                             "updated_yoshimora")
        EXCEPT !.angles = << Deg(0), Theta(th), Deg(90),
                             DegMinus(180, Theta(th)), Deg(180),
                             AngAdd(Theta(th), 180), Deg(-90),
                             AngNeg(Theta(th)) >> ]

\* updated_yoshimora.py builds its branches with Branch(start_point=...,
\* count_beam=..., pannel_gap=...) and BranchTape(...) of draw_yoshimora.py,
\* whose __init__ takes beam_count and panel_gap and no **kwargs: TypeError
\* before a branch exists.
BranchCallRaises(blk) == blk.module = "updated_yoshimora"

_compute_branch_position(blk) ==
    [ k \in 1..Len(blk.angles) |->
        end_point_of_line(blk.center, blk.radius, blk.angles[k]) ]

\* Mutant: the two radii not taken off.
Mutant_get_horizontal_branch_length_NoRadius(blk) ==
    CosScalar(2 * (blk.length + 2 * blk.radius), blk.angle)

_get_horizontal_branch_length(blk) ==
    CosScalar(2 * (blk.length + 2 * blk.radius), blk.angle) - 2 * blk.radius

\* Mutant: only index 0 gets the horizontal length.
MutantBranchLengthAt_OnlyZero(blk, i) ==
    IF i = 0 THEN _get_horizontal_branch_length(blk) ELSE blk.length

\* The length of the branch at index i (0-based, as in the program).
BranchLengthAt(blk, i) ==
    IF i = 0 \/ i = 3 THEN _get_horizontal_branch_length(blk)
    ELSE blk.length

_create_branch(blk, position, length, angle) ==
    Branch(IF ~blk.tape THEN "Branch"
           ELSE IF blk.module = "draw_yoshimora"
                THEN "draw_yoshimora.BranchTape" ELSE "BranchTape",
           position, length, angle, blk.beam_count, blk.panel_gap,
           blk.beam_gap, blk.beam_length, blk.beam_width)

\* The centre support of one direction.  `raises` is the ZeroDivisionError of
\* normalize_vector; `added` is what the sink has received by then.
_draw_branch_center_support(blk, position, angle) ==
    LET start_point_extremity1 ==
            end_point_of_line(position, Half(blk.panel_gap), AngAdd(angle, -90))
        v1 == vector_difference(blk.center, start_point_extremity1)
        second_point_extremity1 ==
            vector_sum(start_point_extremity1,
                       vector_multiply(normalize_vector(v1), Half(blk.radius)))
        start_point_extremity2 ==
            end_point_of_line(position, Half(blk.panel_gap), AngAdd(angle, 90))
        v2 == vector_difference(blk.center, start_point_extremity2)
        second_point_extremity2 ==
            vector_sum(start_point_extremity2,
                       vector_multiply(normalize_vector(v2), Half(blk.radius)))
        line1 == Line(start_point_extremity1, second_point_extremity1,
                      <<PartSupport, 0, 0>>)
        line2 == Line(start_point_extremity2, second_point_extremity2,
                      <<PartSupport, 0, 1>>)
        line3 == Line(second_point_extremity1, second_point_extremity2,
                      <<PartSupport, 0, 2>>)
    IN  IF IsZeroVector(v1) THEN [added |-> <<>>, raises |-> TRUE]
        ELSE IF IsZeroVector(v2) THEN [added |-> <<line1>>, raises |-> TRUE]
        ELSE [added |-> <<line1, line2, line3>>, raises |-> FALSE]

\* Mutant: the centre support never saves.
MutantSupportSaves_None(r, n) == <<>>

\* The drawing.save() of _draw_branch_center_support, r being its result and
\* n the length of the drawing before the call.
SupportSaves(r, n) == IF r.raises THEN <<>> ELSE <<n + Len(r.added)>>

\* ---------------------- yoshimora_miura_plastic.py: YoshimoraTesselation
\* The size argument: the type of the object given, its entries, and the
\* positions of the entries that are floats.  A float entry is kept by its
\* integer part: the program only ever hands it to range(), which rejects a
\* float whatever its value.
SizeArg(type, items, floats) == [type |-> type, items |-> items, floats |-> floats]

YoshimoraTesselation(size, center, radius, length, th, beam_count, panel_gap, beam_gap, beam_length, beam_width, tape) ==
    [ module |-> "yoshimora_miura_plastic",
      size |-> size.items,
      size_type |-> size.type,
      size_floats |-> size.floats,
      center |-> center,
      radius |-> radius,
      length |-> length,
      angle |-> th,
      beam_count |-> beam_count,
      panel_gap |-> panel_gap,
      beam_gap |-> beam_gap,
      beam_length |-> beam_length,
      beam_width |-> beam_width,
      tape |-> tape ]

\* draw_yoshimora.py and updated_yoshimora.py: YoshimoraTesselation keeps the
\* same arguments (count_beam and pannel_gap in updated_yoshimora.py).
draw_yoshimora_YoshimoraTesselation(size, center, radius, length, th, beam_count, panel_gap, beam_gap, beam_length, beam_width, tape) ==
    [ YoshimoraTesselation(size, center, radius, length, th, beam_count,
                           panel_gap, beam_gap, beam_length, beam_width, tape)
        EXCEPT !.module = "draw_yoshimora" ]

updated_yoshimora_YoshimoraTesselation(size, center, radius, length, th, count_beam, pannel_gap, beam_gap, beam_length, beam_width, tape) ==
    [ YoshimoraTesselation(size, center, radius, length, th, count_beam,
                           pannel_gap, beam_gap, beam_length, beam_width, tape)
        EXCEPT !.module = "updated_yoshimora" ]

\* Mutant: the special case of even rows at j = 0 left out.
Mutant_get_activated_branch_NoEvenRow(t, position) ==
    LET a0 == <<TRUE, TRUE, TRUE, TRUE, TRUE, TRUE>>
        a1 == IF position[2] > 0
              THEN IF position[1] > 0
                   THEN [a0 EXCEPT ![4] = FALSE, ![3] = FALSE]
                   ELSE [a0 EXCEPT ![4] = FALSE]
              ELSE a0
        a3 == IF position[2] < t.size[2] - 1 /\ position[1] > 0
              THEN [a1 EXCEPT ![2] = FALSE]
              ELSE a1
        a4 == IF position[2] = t.size[2] - 1 /\ position[1] % 2 = 1
              THEN [a3 EXCEPT ![2] = FALSE]
              ELSE a3
    IN  a4

\* Mutant: branch 3 switched off by the row index instead of the column.
Mutant_get_activated_branch_ByRow(t, position) ==
    LET a0 == <<TRUE, TRUE, TRUE, TRUE, TRUE, TRUE>>
        a1 == IF position[1] > 0
              THEN IF position[2] > 0
                   THEN [a0 EXCEPT ![4] = FALSE, ![3] = FALSE]
                   ELSE [a0 EXCEPT ![4] = FALSE]
              ELSE a0
        a2 == IF position[1] % 2 = 0 /\ position[2] = 0 /\ position[1] > 0
              THEN [a1 EXCEPT ![3] = FALSE]
              ELSE a1
        a3 == IF position[2] < t.size[2] - 1 /\ position[1] > 0
              THEN [a2 EXCEPT ![2] = FALSE]
              ELSE a2
        a4 == IF position[2] = t.size[2] - 1 /\ position[1] % 2 = 1
              THEN [a3 EXCEPT ![2] = FALSE]
              ELSE a3
    IN  a4

\* Mutant: the last column's odd rows left out.
Mutant_get_activated_branch_NoLastColumn(t, position) ==
    LET a0 == <<TRUE, TRUE, TRUE, TRUE, TRUE, TRUE>>
        a1 == IF position[2] > 0
              THEN IF position[1] > 0
                   THEN [a0 EXCEPT ![4] = FALSE, ![3] = FALSE]
                   ELSE [a0 EXCEPT ![4] = FALSE]
              ELSE a0
        a2 == IF position[1] % 2 = 0 /\ position[2] = 0 /\ position[1] > 0
              THEN [a1 EXCEPT ![3] = FALSE]
              ELSE a1
        a3 == IF position[2] < t.size[2] - 1 /\ position[1] > 0
              THEN [a2 EXCEPT ![2] = FALSE]
              ELSE a2
    IN  a3

\* Mutant: the spine branch switched off for j > 0 is branch 0, not branch 3.
Mutant_get_activated_branch_Branch0(t, position) ==
    LET a0 == <<TRUE, TRUE, TRUE, TRUE, TRUE, TRUE>>
        a1 == IF position[2] > 0
              THEN IF position[1] > 0
                   THEN [a0 EXCEPT ![1] = FALSE, ![3] = FALSE]
                   ELSE [a0 EXCEPT ![1] = FALSE]
              ELSE a0
        a2 == IF position[1] % 2 = 0 /\ position[2] = 0 /\ position[1] > 0
              THEN [a1 EXCEPT ![3] = FALSE]
              ELSE a1
        a3 == IF position[2] < t.size[2] - 1 /\ position[1] > 0
              THEN [a2 EXCEPT ![2] = FALSE]
              ELSE a2
        a4 == IF position[2] = t.size[2] - 1 /\ position[1] % 2 = 1
              THEN [a3 EXCEPT ![2] = FALSE]
              ELSE a3
    IN  a4

\* position = <<i, j>>: i the index of the outer loop (over size[0]), j of
\* the inner loop (over size[1]).  The mask is 1-based here: entry k of the
\* program is activated_branch[k + 1].
_get_activated_branch(t, position) ==
    LET a0 == <<TRUE, TRUE, TRUE, TRUE, TRUE, TRUE>>
        a1 == IF position[2] > 0
              THEN IF position[1] > 0
                   THEN [a0 EXCEPT ![4] = FALSE, ![3] = FALSE]
                   ELSE [a0 EXCEPT ![4] = FALSE]
              ELSE a0
        a2 == IF position[1] % 2 = 0 /\ position[2] = 0 /\ position[1] > 0
              THEN [a1 EXCEPT ![3] = FALSE]
              ELSE a1
        a3 == IF position[2] < t.size[2] - 1 /\ position[1] > 0
              THEN [a2 EXCEPT ![2] = FALSE]
              ELSE a2
        a4 == IF position[2] = t.size[2] - 1 /\ position[1] % 2 = 1
              THEN [a3 EXCEPT ![2] = FALSE]
              ELSE a3
    IN  a4

\* Mutant: the stagger given to the odd rows instead of the even ones.
Mutant_get_block_center_OddRows(t, position) ==
    LET offset == IF position[1] % 2 = 1
                  THEN end_point_of_line(<<Zero, Zero>>,
                                         2 * t.radius + t.length,
                                         Theta(t.angle))[1]
                  ELSE Zero
        vertical_mov == end_point_of_line(
            t.center, position[1] * (2 * t.radius + t.length),
            AngNeg(Theta(t.angle)))
        horizontal_mov == end_point_of_line(
            t.center,
            CosScalar(position[2] * 2 * (t.length + 2 * t.radius), t.angle),
            Deg(0))
    IN  << NumAdd(horizontal_mov[1], offset), vertical_mov[2] >>

_get_block_center(t, position) ==
    LET offset == IF position[1] % 2 = 0
                  THEN end_point_of_line(<<Zero, Zero>>,
                                         2 * t.radius + t.length,
                                         Theta(t.angle))[1]
                  ELSE Zero
        vertical_mov == end_point_of_line(
            t.center, position[1] * (2 * t.radius + t.length),
            AngNeg(Theta(t.angle)))
        horizontal_mov == end_point_of_line(
            t.center,
            CosScalar(position[2] * 2 * (t.length + 2 * t.radius), t.angle),
            Deg(0))
    IN  << NumAdd(horizontal_mov[1], offset), vertical_mov[2] >>

\* updated_yoshimora.py, compute_activated_branch: the six-entry mask of the
\* position is computed as in the other modules, and [True] * 8 is returned.
updated_yoshimora_compute_activated_branch(t, pos_) ==
    LET activated_branch == _get_activated_branch(t, pos_)
    IN  AllTrue(8)

\* The building block of one grid cell (the body of the two loops);
\* compute_branch_position of draw_yoshimora.py and updated_yoshimora.py is
\* _get_block_center, its compute_activated_branch _get_activated_branch.
TesselationBlock(t, position) ==
    IF t.module = "updated_yoshimora"
    THEN BuildingBlockUpdatedYoshimora(
             _get_block_center(t, position), t.radius, t.length, t.angle,
             t.beam_count,
             updated_yoshimora_compute_activated_branch(t, position),
             t.panel_gap, t.beam_gap, t.beam_length, t.beam_width, t.tape)
    ELSE BuildingBlockYoshimora(
             _get_block_center(t, position), t.radius, t.length, t.angle,
             t.beam_count, _get_activated_branch(t, position), t.panel_gap,
             t.beam_gap, t.beam_length, t.beam_width, t.tape, t.module)

\* ------------------------------------------- yoshimora_miura_shim.py: shims
\* Parts of the shim drawings, for `ord` (index 0 = join line, 1 = outline,
\* 2 = closing line of the centre part; the loop count of a separator).
PartShim == 2
PartSep == 3

\* self.beam_width * 1 / self.ratio, the ratio a fraction <<num, den>>.
ShimWidth(beam_width, ratio) == (beam_width * ratio[2]) \div ratio[1]

ShimBranch(position, length, angle, ratio, margin, beam_count, panel_gap, beam_gap, beam_length, beam_width) ==
    [ position |-> position,
      length |-> length,
      angle |-> angle,
      ratio |-> ratio,
      margin |-> margin,
      beam_count |-> beam_count,
      panel_gap |-> panel_gap,
      beam_gap |-> beam_gap,
      beam_length |-> beam_length,
      beam_width |-> beam_width,
      width |-> ShimWidth(beam_width, ratio) ]

ShimBranch_get_extremity_length(b) ==
    Half(b.length - b.beam_length * b.beam_count
                  - b.beam_gap * (b.beam_count - 1) - b.margin)

ShimBranch_get_branch_starting_point(b) ==
    end_point_of_line(b.position,
                      Half(b.width - b.beam_width + b.panel_gap),
                      AngAdd(b.angle, -90))

ShimBranch_get_branch_points(b) ==
    LET length_extremity_lines == ShimBranch_get_extremity_length(b)
        start_point == ShimBranch_get_branch_starting_point(b)
        shim_point1 == end_point_of_line(start_point, length_extremity_lines,
                                         b.angle)
        shim_point2 == end_point_of_line(
            shim_point1, Half(b.beam_width - b.panel_gap),
            AngAdd(b.angle, -90))
        shim_point3 == end_point_of_line(shim_point2, b.margin, b.angle)
        shim_point4 == end_point_of_line(shim_point3, b.width,
                                         AngAdd(b.angle, 90))
        shim_point5 == end_point_of_line(shim_point4, b.margin,
                                         AngAdd(b.angle, 180))
        shim_point6 == end_point_of_line(
            shim_point5, Half(b.beam_width - b.panel_gap),
            AngAdd(b.angle, -90))
        end_shim == end_point_of_line(shim_point6, length_extremity_lines,
                                      AngAdd(b.angle, -180))
    IN  << start_point, shim_point1, shim_point2, shim_point3, shim_point4,
           shim_point5, shim_point6, end_shim >>

\* The directions of a hub: six, or eight in the updated_* modules.
ShimAngles(module, th) ==
    IF module = "yoshimora_miura_shim"
    THEN << <<th, 0, 0>>, <<th, 1, 0>>, <<th, -1, 2>>, <<th, 0, 2>>,
            <<th, 1, 2>>, <<th, -1, 0>> >>
    ELSE << <<th, 0, 0>>, <<th, 1, 0>>, <<th, 0, 1>>, <<th, -1, 2>>,
            <<th, 0, 2>>, <<th, 1, 2>>, <<th, 0, -1>>, <<th, -1, 0>> >>

\* ShimCenterPart / CenterShim and the shim building blocks take the same
\* arguments and keep them under the same names (count_beam and pannel_gap
\* in updated_yoshimora.py); cls tells them apart.
ShimObject(cls, module, center, radius, length, th, ratio, margin, beam_count, panel_gap, beam_gap, activated_branch, beam_length, beam_width) ==
    [ cls |-> cls,
      module |-> module,
      center |-> center,
      radius |-> radius,
      length |-> length,
      angle |-> th,
      ratio |-> ratio,
      margin |-> margin,
      beam_count |-> beam_count,
      panel_gap |-> panel_gap,
      beam_gap |-> beam_gap,
      activated_branch |-> activated_branch,
      beam_length |-> beam_length,
      beam_width |-> beam_width,
      angles |-> ShimAngles(module, th),
      width |-> ShimWidth(beam_width, ratio) ]

\* for j in range(i): the shifts of _get_branch_position, from j on.
RECURSIVE PositionShift(_, _, _, _)
PositionShift(s, point, i, j) ==
    IF j >= i THEN point
    ELSE PositionShift(
             s,
             end_point_of_line(
                 point,
                 IF j = 0 THEN Half(s.width - s.beam_width)
                          ELSE s.width - s.beam_width,
                 AngAdd(s.angles[j + 1], 90)),
             i, j + 1)

\* ShimCenterPart._get_branch_position (the same in the shim blocks).
ShimCenterPart_get_branch_position(s) ==
    [ k \in 1..Len(s.angles) |->
        LET i == k - 1
            point == PositionShift(
                         s, end_point_of_line(s.center, s.radius, s.angles[k]),
                         i, 0)
        IN  IF i # 0
            THEN end_point_of_line(
                     point,
                     Half(s.panel_gap)
                         - Half(s.width - s.beam_width + s.panel_gap),
                     AngAdd(s.angles[k], -90))
            ELSE point ]

\* math.sin(math.radians(theta)) as a scalar factor, for the fold angles
\* whose sine is rational: acos(4/5) and acos(3/5).
SinScalar(len, th) == (len * (IF th = Theta37 THEN 3 ELSE 4)) \div th[2]

\* yoshimora_miura_shim.py, ShimCenterPart._get_branch_length and
\* BuildingBlockShimYoshimora._get_branch_length.
ShimCenterPart_get_branch_length(s, idx) ==
    IF idx = 0 \/ idx = 3
    THEN CosScalar(2 * (s.length + 2 * s.radius), s.angle) - 2 * s.radius
    ELSE s.length

\* updated_yoshimora_miura_shim.py, the same two methods.
Updated_get_branch_length(s, idx) ==
    IF idx = 0 \/ idx = 4
    THEN CosScalar(s.length + 2 * s.radius, s.angle) - s.radius
    ELSE IF idx = 2 \/ idx = 6
         THEN SinScalar(s.length + 2 * s.radius, s.angle) - s.radius
         ELSE s.length

\* ShimSep of yoshimora_miura_shim.py and updated_yoshimora_miura_shim.py.
ShimSep(center, angle, ratio, margin, panel_gap, beam_gap, beam_length, beam_width) ==
    [ center |-> center,
      angle |-> angle,
      ratio |-> ratio,
      margin |-> margin,
      panel_gap |-> panel_gap,
      beam_gap |-> beam_gap,
      beam_length |-> beam_length,
      beam_width |-> beam_width,
      width |-> ShimWidth(beam_width, ratio) ]

\* The twelve corners of a separator after its first corner point1.
SeparatorOutline(sep, point1) ==
    LET point2 == end_point_of_line(point1, sep.margin, sep.angle)
        point3 == end_point_of_line(
            point2, Half(sep.beam_width - sep.panel_gap),
            AngAdd(sep.angle, -90))
        point4 == end_point_of_line(point3, sep.beam_gap - sep.margin,
                                    sep.angle)
        point5 == end_point_of_line(
            point4, Half(sep.beam_width - sep.panel_gap),
            AngAdd(sep.angle, 90))
        point6 == end_point_of_line(point5, sep.margin, sep.angle)
        point7 == end_point_of_line(point6, sep.width, AngAdd(sep.angle, -90))
        point8 == end_point_of_line(point7, sep.margin,
                                    AngAdd(sep.angle, 180))
        point9 == end_point_of_line(
            point8, Half(sep.beam_width - sep.panel_gap),
            AngAdd(sep.angle, 90))
        point10 == end_point_of_line(point9, sep.beam_gap - sep.margin,
                                     AngAdd(sep.angle, 180))
        point11 == end_point_of_line(
            point10, Half(sep.beam_width - sep.panel_gap),
            AngAdd(sep.angle, -90))
        point12 == end_point_of_line(point11, sep.margin,
                                     AngAdd(sep.angle, 180))
    IN  << point1, point2, point3, point4, point5, point6, point7, point8,
           point9, point10, point11, point12 >>

ShimSep_get_seperator_points(sep) ==
    LET start_point == end_point_of_line(
            sep.center, Half(sep.beam_gap + sep.margin),
            AngAdd(sep.angle, 180))
        point1 == end_point_of_line(start_point, Half(sep.width),
                                    AngAdd(sep.angle, 90))
    IN  <<start_point>> \o SeparatorOutline(sep, point1)

\* Mutant: the loop is left open.
MutantShimSep_draw_shim_seperator_Open(sep) ==
    Tail(ShimSep_get_seperator_points(sep))

\* points[1:] with points[0] of the rest appended.
ShimSep_draw_shim_seperator(sep) ==
    LET points == Tail(ShimSep_get_seperator_points(sep))
    IN  Append(points, points[1])

\* ShimSep of draw_yoshimora.py, which updated_yoshimora.py imports: the
\* separator starts at `position` (kept in center) and goes forward.
draw_yoshimora_ShimSep_draw_shim_seperator(sep) ==
    LET start_point == end_point_of_line(sep.center, Half(sep.width),
                                         AngAdd(sep.angle, -90))
        point1 == end_point_of_line(start_point, sep.width,
                                    AngAdd(sep.angle, 90))
    IN  Append(SeparatorOutline(sep, point1), point1)

\* -------------------------------------------------- updated_yoshimora.py
\* The length, the number of beam units and the beam gap of direction i:
\* the same statements in CenterShim.draw_shim,
\* BuildingBlockUpdatedShimYoshimora.draw_shim and
\* BuildingBlockUpdatedYoshimora.draw_building_block.
UpdatedLength(s, i) ==
    IF i = 0 \/ i = 4
    THEN CosScalar(2 * (s.length + 2 * s.radius), s.angle) - 2 * s.radius
    ELSE IF i = 2 \/ i = 6
         THEN SinScalar(2 * (s.length + 2 * s.radius), s.angle) - 2 * s.radius
         ELSE s.length

\* Mutant: the perpendicular directions keep count_beam.
MutantUpdatedCountBeam_NotDoubled(s, i) == s.beam_count

UpdatedCountBeam(s, i) ==
    IF i = 2 \/ i = 6 THEN s.beam_count * 2 ELSE s.beam_count

UpdatedBeamGap(s, i) ==
    IF i = 0 \/ i = 4
    THEN (s.beam_gap * 3 * UpdatedLength(s, i)) \div (2 * s.length)
    ELSE IF i = 2 \/ i = 6
         THEN (s.beam_gap * UpdatedLength(s, i)) \div (s.length * 2)
         ELSE (s.beam_gap * UpdatedLength(s, i)) \div s.length

UpdatedExtremityLength(s, i) ==
    Half(UpdatedLength(s, i) - s.beam_length * UpdatedCountBeam(s, i)
             - UpdatedBeamGap(s, i) * (UpdatedCountBeam(s, i) - 1)
             - s.margin)

\* CenterShim.compute_branch_position: no last shift.
CenterShim_compute_branch_position(s) ==
    [ k \in 1..Len(s.angles) |->
        PositionShift(s, end_point_of_line(s.center, s.radius, s.angles[k]),
                      k - 1, 0) ]

\* CenterShim.draw_shim, the eight points of direction i.
CenterShim_points(s, i) ==
    LET a == s.angles[i + 1]
        branch_position == CenterShim_compute_branch_position(s)
        length_extremity_lines == UpdatedExtremityLength(s, i)
        start_point ==
            IF i = 0
            THEN end_point_of_line(
                     branch_position[i + 1],
                     Half(s.width - s.beam_width + s.panel_gap),
                     AngAdd(a, -90))
            ELSE end_point_of_line(branch_position[i + 1],
                                   Half(s.panel_gap), AngAdd(a, -90))
        shim_point1 == end_point_of_line(start_point, length_extremity_lines,
                                         a)
        shim_point2 == end_point_of_line(
            shim_point1, Half(s.beam_width - s.panel_gap), AngAdd(a, -90))
        shim_point3 == end_point_of_line(shim_point2, s.margin, a)
        shim_point4 == end_point_of_line(shim_point3, s.width, AngAdd(a, 90))
        shim_point5 == end_point_of_line(shim_point4, s.margin,
                                         AngAdd(a, 180))
        shim_point6 == end_point_of_line(
            shim_point5, Half(s.beam_width - s.panel_gap), AngAdd(a, -90))
        end_shim == end_point_of_line(shim_point6, length_extremity_lines,
                                      AngAdd(a, -180))
    IN  << start_point, shim_point1, shim_point2, shim_point3, shim_point4,
           shim_point5, shim_point6, end_shim >>

\* BuildingBlockUpdatedShimYoshimora.draw_shim: where separator `count` of
\* direction i starts.
UpdatedSeparatorPosition(s, i, count) ==
    LET a == s.angles[i + 1]
        branch_position == CenterShim_compute_branch_position(s)
        position ==
            IF i = 0 THEN branch_position[i + 1]
            ELSE end_point_of_line(
                     end_point_of_line(branch_position[i + 1],
                                       Half(s.panel_gap), AngAdd(a, -90)),
                     Half(s.width - s.beam_width + s.panel_gap),
                     AngAdd(a, 90))
    IN  end_point_of_line(
            position,
            UpdatedExtremityLength(s, i) + s.margin
                + (s.beam_length - s.margin) * (count + 1)
                + (UpdatedBeamGap(s, i) + s.margin) * count,
            a)

\* -------------------------------------------- shim building blocks, centre
ShimModules ==
    {"yoshimora_miura_shim", "updated_yoshimora_miura_shim",
     "updated_yoshimora"}

\* self._get_branch_length(i) of the module of s.
ShimBranchLengthAt(s, i) ==
    IF s.module = "yoshimora_miura_shim"
    THEN ShimCenterPart_get_branch_length(s, i)
    ELSE Updated_get_branch_length(s, i)

\* The ShimBranch that ShimCenterPart._draw_shim builds for direction i.
CenterBranch(s, i) ==
    ShimBranch(ShimCenterPart_get_branch_position(s)[i + 1],
               ShimBranchLengthAt(s, i), s.angles[i + 1], s.ratio, s.margin,
               s.beam_count, s.panel_gap, s.beam_gap, s.beam_length,
               s.beam_width)

\* The eight outline points of direction i of a centre part.
CenterPoints(s, i) ==
    IF s.module = "updated_yoshimora"
    THEN CenterShim_points(s, i)
    ELSE ShimBranch_get_branch_points(CenterBranch(s, i))

\* What one pass of the loop of _draw_shim / draw_shim adds for an active
\* direction i: the join line from the outline's start to the previous
\* outline's end (i != 0), then the outline.
CenterAdded(s, i, last_end) ==
    LET points == CenterPoints(s, i)
    IN  (IF i # 0
         THEN << Line(points[1], last_end, <<PartShim, 0, 0>>) >>
         ELSE << >>)
        \o << Polyline(points, <<PartShim, 1, 0>>) >>

\* ShimBranch._draw_branch saves after its polyline; CenterShim.draw_shim of
\* updated_yoshimora.py has no save in its loop.
CenterSaves(s, n) ==
    IF s.module = "updated_yoshimora" THEN << >> ELSE <<n>>

\* The last line of the centre part: from end_shim to the start of the
\* outline of direction 0.
CenterClosingLine(s, last_end) ==
    LET branch_position ==
            IF s.module = "updated_yoshimora"
            THEN CenterShim_compute_branch_position(s)
            ELSE ShimCenterPart_get_branch_position(s)
    IN  Line(last_end,
             end_point_of_line(
                 branch_position[1],
                 Half(s.width - s.beam_width + s.panel_gap),
                 AngAdd(s.angles[1], -90)),
             <<PartShim, 2, 0>>)

\* ------------------------------------------ shim building blocks, separators
\* Mutant: the offset stops at the end of the first beam unit.
MutantBuildingBlockShimYoshimora_get_offset_length_NoHalfGap(blk, length) ==
    Half(length - blk.beam_length * blk.beam_count
                - blk.beam_gap * (blk.beam_count - 1))
        + blk.beam_length

BuildingBlockShimYoshimora_get_offset_length(blk, length) ==
    Half(length - blk.beam_length * blk.beam_count
                - blk.beam_gap * (blk.beam_count - 1))
        + blk.beam_length + Half(blk.beam_gap)

BuildingBlockShimYoshimora_get_seperator_center(blk, idx, count, offset, branch_position) ==
    end_point_of_line(branch_position,
                      offset + count * (blk.beam_gap + blk.beam_length),
                      blk.angles[idx + 1])

\* range(self.beam_count - 1), range(count_beam - 1): how many separators an
\* active direction gets.
SeparatorCount(blk, i) ==
    IF blk.module = "updated_yoshimora"
    THEN UpdatedCountBeam(blk, i) - 1
    ELSE blk.beam_count - 1

\* Separator `count` of direction i, as the polyline added.
Separator(blk, i, count) ==
    IF blk.module = "updated_yoshimora"
    THEN Polyline(
             draw_yoshimora_ShimSep_draw_shim_seperator(
                 ShimSep(UpdatedSeparatorPosition(blk, i, count),
                         blk.angles[i + 1], blk.ratio, blk.margin,
                         blk.panel_gap, UpdatedBeamGap(blk, i),
                         blk.beam_length, blk.beam_width)),
             <<PartSep, 0, count>>)
    ELSE LET length == ShimBranchLengthAt(blk, i)
             offset == BuildingBlockShimYoshimora_get_offset_length(
                           blk, length)
             center_sep ==
                 BuildingBlockShimYoshimora_get_seperator_center(
                     blk, i, count, offset,
                     ShimCenterPart_get_branch_position(blk)[i + 1])
         IN  Polyline(
                 ShimSep_draw_shim_seperator(
                     ShimSep(center_sep, blk.angles[i + 1], blk.ratio,
                             blk.margin, blk.panel_gap, blk.beam_gap,
                             blk.beam_length, blk.beam_width)),
                 <<PartSep, 0, count>>)

\* for count in range(...): the separators of an active direction i.
Separators(blk, i) ==
    [ k \in 1..SeparatorCount(blk, i) |-> Separator(blk, i, k - 1) ]

\* Each separator saves after its polyline.
SeparatorSaves(blk, i, n) ==
    [ k \in 1..SeparatorCount(blk, i) |-> n + k ]

\* ------------------------------- yoshimora_miura_shim.py: ShimTesselation
ShimTesselation(size, center, radius, length, th, ratio, margin, beam_count, panel_gap, beam_gap, beam_length, beam_width) ==
    [ cls |-> "ShimTesselation",
      module |-> "yoshimora_miura_shim",
      size |-> size.items,
      size_type |-> size.type,
      size_floats |-> size.floats,
      center |-> center,
      radius |-> radius,
      length |-> length,
      angle |-> th,
      ratio |-> ratio,
      margin |-> margin,
      beam_count |-> beam_count,
      panel_gap |-> panel_gap,
      beam_gap |-> beam_gap,
      beam_length |-> beam_length,
      beam_width |-> beam_width,
      width |-> ShimWidth(beam_width, ratio),
      angles |-> ShimAngles("yoshimora_miura_shim", th) ]

\* updated_yoshimora_miura_shim.py: the same class text (six angles, masks
\* of six entries), over that module's BuildingBlockShimYoshimora of eight
\* directions.
updated_ShimTesselation(size, center, radius, length, th, ratio, margin, beam_count, panel_gap, beam_gap, beam_length, beam_width) ==
    [ ShimTesselation(size, center, radius, length, th, ratio, margin,
                      beam_count, panel_gap, beam_gap, beam_length,
                      beam_width)
        EXCEPT !.module = "updated_yoshimora_miura_shim" ]

ShimTesselation_compute_activated_branch(t, position) ==
    LET a0 == AllTrue(6)
        a1 == IF position[2] > 0
              THEN IF position[1] > 0
                   THEN [a0 EXCEPT ![4] = FALSE, ![3] = FALSE]
                   ELSE [a0 EXCEPT ![4] = FALSE]
              ELSE a0
        a2 == IF position[1] % 2 = 0 /\ position[2] = 0 /\ position[1] > 0
              THEN [a1 EXCEPT ![3] = FALSE] ELSE a1
        a3 == IF position[2] < t.size[2] - 1 /\ position[1] > 0
              THEN [a2 EXCEPT ![2] = FALSE] ELSE a2
    IN  IF position[2] = t.size[2] - 1 /\ position[1] % 2 = 1
        THEN [a3 EXCEPT ![2] = FALSE] ELSE a3

\* for i in list(range(0, branch_number))[::-1]: the shifts from i down.
RECURSIVE CenterShift(_, _, _)
CenterShift(t, point, i) ==
    IF i < 0 THEN point
    ELSE CenterShift(
             t,
             end_point_of_line(
                 point,
                 IF i = 0 THEN Half(t.width - t.beam_width)
                          ELSE t.width - t.beam_width,
                 AngAdd(t.angles[i + 1], 270)),
             i - 1)

\* _get_center_position: `branch_position == 0` compares a point with 0 and
\* is never true.
ShimTesselation_get_center_position(t, branch_number, branch_position) ==
    LET a == t.angles[branch_number + 1]
        point1 == end_point_of_line(
            branch_position, Half(t.width - t.beam_width + t.panel_gap),
            AngAdd(a, -90))
        point2 == end_point_of_line(point1, Half(t.panel_gap),
                                    AngAdd(a, 90))
        point3 == CenterShift(t, point2, branch_number - 1)
    IN  end_point_of_line(point3, t.radius, AngAdd(a, 180))

\* The shim block of the sheet t at a centre, with a mask.
SheetBlock(t, center, activated_branch) ==
    ShimObject("BuildingBlockShimYoshimora", t.module, center, t.radius,
               t.length, t.angle, t.ratio, t.margin, t.beam_count,
               t.panel_gap, t.beam_gap, activated_branch, t.beam_length,
               t.beam_width)

ShimTesselation_get_new_ref_block(t, row_idx, old_ref_block) ==
    LET k == IF row_idx % 2 = 0 THEN 4 ELSE 5
        branch_position ==
            ShimCenterPart_get_branch_position(old_ref_block)[k + 1]
        new_branch_position ==
            end_point_of_line(branch_position,
                              ShimBranchLengthAt(old_ref_block, k),
                              old_ref_block.angles[k + 1])
        center == ShimTesselation_get_center_position(
                      t, IF row_idx % 2 = 0 THEN 1 ELSE 2,
                      new_branch_position)
    IN  SheetBlock(t, center,
                   ShimTesselation_compute_activated_branch(
                       t, <<row_idx, 0>>))

\* _draw_row: the centre of the next cell of the row.
NextRowCenter(t, blk, center_) ==
    ShimTesselation_get_center_position(
        t, 3,
        end_point_of_line(center_, ShimBranchLengthAt(blk, 0) + t.radius,
                          Deg(0)))

\* ------------------------------------------------------------------ state
VARIABLES
    entry,   \* the object called at top level: "tesselation", "block", "branch"
    pc,      \* where the call is
    tess,    \* the YoshimoraTesselation, or None
    pos,     \* <<i, j>> of _draw_tesselation's loops
    block,   \* the current BuildingBlockYoshimora, or None
    d,       \* the index i of _draw_building_block's loop
    branch,  \* the Branch created last, or None
    shim,    \* the centre part being drawn (ShimCenterPart, CenterShim), or None
    end_shim,  \* the local end_shim of the centre part's loop; None = unbound
    ref_block,  \* the reference block of _draw_shim_sheet, or None
    row_center,  \* the local `center` of _draw_row, or None
    prev,    \* <<sink, saves, drawing>> of the first of two runs, or None;
             \* drawing says which drawing the second generator was given
    sink,    \* the drawing: what drawing.add has received, in order
    saves    \* the length of the drawing at each drawing.save()

vars == <<entry, pc, tess, pos, block, d, branch, shim, end_shim, ref_block,
          row_center, prev, sink, saves>>

\* ----------------------------------------------------------------- inputs
Origin == <<Zero, Zero>>
OffCentre == <<Num(Fx(300)), Num(Fx(-100))>>

\* <<radius, length, angle>>: the presets under __main__ (radius 2, length
\* 25, angle 60; radius 2.5, length 27, with acos(4/5) = 36.87 for angle 40)
\* and a steeper fold.
Preset60 == <<Fx(200), Fx(2500), Theta60>>
Preset37 == <<Fx(250), Fx(2700), Theta37>>
Preset53 == <<Fx(250), Fx(2700), Theta53>>
Presets == {Preset60, Preset37, Preset53}
BlockPresets == {Preset60, Preset37}
\* The centre a tessellation of the preset is given.
PresetCentre(ps) == IF ps = Preset53 THEN OffCentre ELSE Origin

\* Branch lengths for a branch drawn on its own: too short for two beams,
\* exactly one beam, and the presets' lengths.
BranchLengths == { Fx(1000), Fx(633), Fx(2500), Fx(2700) }

\* panel_gap, beam_gap, beam_length, beam_width: the defaults, and the
\* defaults at scaling = 2 (panel_gap is not scaled).
Gaps == { <<Fx(PanelGapDefault), Fx(BeamGapDefault),
            Fx(BeamLengthDefault), Fx(BeamWidthDefault)>>,
          <<Fx(PanelGapDefault), Fx(2 * BeamGapDefault),
            Fx(2 * BeamLengthDefault), Fx(2 * BeamWidthDefault)>> }
DefaultGaps == <<Fx(PanelGapDefault), Fx(BeamGapDefault),
                 Fx(BeamLengthDefault), Fx(BeamWidthDefault)>>

Directions(th) == BuildingBlockYoshimora(Origin, 0, 0, th, 0, <<>>, 0, 0, 0, 0, FALSE, "yoshimora_miura_plastic").angles
BranchAngles == UNION { {Directions(th)[k] : k \in 1..6} : th \in Thetas }

Masks == [1..6 -> BOOLEAN]
\* Masks that do not have one entry per direction.
WrongMasks == { <<TRUE, TRUE, TRUE, TRUE, TRUE>>,
                <<TRUE, FALSE, TRUE, TRUE, FALSE>>,
                <<TRUE, TRUE, TRUE, TRUE, TRUE, TRUE, TRUE>>,
                <<TRUE, TRUE, TRUE, TRUE, TRUE, TRUE, FALSE>> }

Masks8 ==
    { AllTrue(8),
      <<TRUE, FALSE, TRUE, FALSE, TRUE, FALSE, TRUE, FALSE>>,
      <<FALSE, TRUE, TRUE, TRUE, TRUE, TRUE, TRUE, TRUE>>,
      <<TRUE, TRUE, FALSE, TRUE, TRUE, TRUE, FALSE, TRUE>>,
      <<FALSE, FALSE, FALSE, FALSE, FALSE, FALSE, FALSE, FALSE>> }
WrongMasks8 == { AllTrue(7), AllTrue(9) }

InitBranch ==
    /\ entry = "branch"
    /\ pc = "branch_call"
    /\ \E cls \in {"Branch", "BranchTape", "draw_yoshimora.BranchTape"},
          position \in {Origin, OffCentre},
          length \in BranchLengths, angle \in BranchAngles,
          beam_count \in 0..MaxBeamCount, g \in Gaps :
            branch = Branch(cls, position, length, angle, beam_count,
                            g[1], g[2], g[3], g[4])
    /\ tess = None /\ block = None /\ pos = <<0, 0>> /\ d = 0
    /\ shim = None /\ end_shim = None /\ prev = None
    /\ ref_block = None /\ row_center = None
    /\ sink = <<>> /\ saves = <<>>

\* The module the building block is taken from.  The cut style of
\* draw_yoshimora.py is statement for statement that of
\* yoshimora_miura_plastic.py; its tape style is not.
Modules == {"yoshimora_miura_plastic", "draw_yoshimora"}

\* <<radius, panel_gap>> of hubs without extent: a hub reduced to its centre
\* with no gap between the panels, with the default gap, and a hub of
\* radius 2 with no gap.
DegenerateHubs == { <<0, 0>>, <<0, Fx(PanelGapDefault)>>, <<Fx(200), 0>> }

InitBlock ==
    /\ entry = "block"
    /\ pc = "block_loop"
    /\ \/ \E center \in {Origin}, ps \in BlockPresets,
             beam_count \in 1..MaxBeamCount, mask \in Masks \cup WrongMasks,
             tape \in BOOLEAN, module \in Modules :
               /\ module = "draw_yoshimora" => tape
               /\ block = BuildingBlockYoshimora(
                           center, ps[1], ps[2], ps[3], beam_count, mask,
                           DefaultGaps[1], DefaultGaps[2], DefaultGaps[3],
                           DefaultGaps[4], tape, module)
       \/ \E hub \in DegenerateHubs, ps \in BlockPresets,
             beam_count \in 1..MaxBeamCount, mask \in Masks :
               block = BuildingBlockYoshimora(
                           Origin, hub[1], ps[2], ps[3], beam_count, mask,
                           hub[2], DefaultGaps[2], DefaultGaps[3],
                           DefaultGaps[4], FALSE, "yoshimora_miura_plastic")
       \/ \E ps \in BlockPresets, beam_count \in 1..MaxBeamCount,
             mask \in Masks8 \cup WrongMasks8, tape \in BOOLEAN :
               block = BuildingBlockUpdatedYoshimora(
                           Origin, ps[1], ps[2], ps[3], beam_count, mask,
                           DefaultGaps[1], DefaultGaps[2], DefaultGaps[3],
                           DefaultGaps[4], tape)
    /\ tess = None /\ branch = None /\ pos = <<0, 0>> /\ d = 0
    /\ shim = None /\ end_shim = None /\ prev = None
    /\ ref_block = None /\ row_center = None
    /\ sink = <<>> /\ saves = <<>>

\* size = (rows, cols), and sizes that are not a tuple of two non-negative
\* integers: [2, 2], (2,), (2, 2, 2), 3, (-1, 2), (2, -1), (1.5, 2), (2, 1.5).
Sizes == { SizeArg("tuple", <<rows, cols>>, {}) :
               rows \in 1..MaxRows, cols \in 1..MaxCols }
InvalidSizes == { SizeArg("list", <<2, 2>>, {}),
                  SizeArg("tuple", <<2>>, {}),
                  SizeArg("tuple", <<2, 2, 2>>, {}),
                  SizeArg("int", <<3>>, {}),
                  SizeArg("tuple", <<-1, 2>>, {}),
                  SizeArg("tuple", <<2, -1>>, {}),
                  SizeArg("tuple", <<1, 2>>, {1}),
                  SizeArg("tuple", <<2, 1>>, {2}) }

\* The tessellations of the three modules.  The cut style of draw_yoshimora.py
\* is that of yoshimora_miura_plastic.py statement for statement and is
\* drawn once, from the latter.
InitTesselation ==
    /\ entry = "tesselation"
    /\ pc = "tess_new"
    /\ \E size \in Sizes \cup InvalidSizes, ps \in Presets,
          beam_count \in 1..MaxBeamCount, tape \in BOOLEAN :
            \/ tess = YoshimoraTesselation(
                          size, PresetCentre(ps), ps[1], ps[2], ps[3],
                          beam_count,
                          DefaultGaps[1], DefaultGaps[2], DefaultGaps[3],
                          DefaultGaps[4], tape)
            \/ /\ tape
               /\ tess = draw_yoshimora_YoshimoraTesselation(
                             size, PresetCentre(ps), ps[1], ps[2], ps[3],
                             beam_count,
                             DefaultGaps[1], DefaultGaps[2], DefaultGaps[3],
                             DefaultGaps[4], tape)
            \/ tess = updated_yoshimora_YoshimoraTesselation(
                          size, PresetCentre(ps), ps[1], ps[2], ps[3],
                          beam_count,
                          DefaultGaps[1], DefaultGaps[2], DefaultGaps[3],
                          DefaultGaps[4], tape)
    /\ block = None /\ branch = None /\ pos = <<0, 0>> /\ d = 0
    /\ shim = None /\ end_shim = None /\ prev = None
    /\ ref_block = None /\ row_center = None
    /\ sink = <<>> /\ saves = <<>>

\* ------------------------------------------------------------ shim inputs
\* margin under __main__, in hundredths of a drawing unit.
MarginDefault == 67
\* ratio as a fraction: 0.84, close to the 0.88 under __main__ and such that
\* beam_width / ratio is a whole number of 1/Scale units.
ShimRatio == <<21, 25>>
\* <<radius, length, angle>> and beam_gap for updated_yoshimora.py, where the
\* beam gap of a direction is beam_gap scaled by length ratios.
PresetUpdated == <<Fx(250), Fx(3000), Theta37>>
UpdatedBeamGapInput == Fx(240)

ShimPresets(module) ==
    CASE module = "yoshimora_miura_shim" -> BlockPresets
      [] module = "updated_yoshimora_miura_shim" -> {Preset37, Preset53}
      [] module = "updated_yoshimora" -> {PresetUpdated}

ShimBeamGap(module) ==
    IF module = "updated_yoshimora" THEN UpdatedBeamGapInput
    ELSE DefaultGaps[2]

ShimMasks(module) ==
    IF module = "yoshimora_miura_shim" THEN Masks \cup WrongMasks
    ELSE Masks8 \cup WrongMasks8

ShimInput(cls, module, ps, beam_count, mask) ==
    ShimObject(cls, module, Origin, ps[1], ps[2], ps[3], ShimRatio,
               Fx(MarginDefault), beam_count, DefaultGaps[1],
               ShimBeamGap(module), mask, DefaultGaps[3], DefaultGaps[4])

\* A centre part called on its own.
InitShimCenter ==
    /\ entry = "shim_center"
    /\ pc = "center_loop"
    /\ \E module \in ShimModules, beam_count \in 1..MaxBeamCount :
         \E ps \in ShimPresets(module), mask \in ShimMasks(module) :
            shim = ShimInput("ShimCenterPart", module, ps, beam_count, mask)
    /\ tess = None /\ block = None /\ branch = None
    /\ pos = <<0, 0>> /\ d = 0
    /\ end_shim = None /\ prev = None
    /\ ref_block = None /\ row_center = None
    /\ sink = <<>> /\ saves = <<>>

\* A shim building block called on its own; one beam unit more than the other
\* objects get, so that a direction has two separators.
InitShimBlock ==
    /\ entry = "shim_block"
    /\ pc = "shim_block_start"
    /\ \E module \in ShimModules, beam_count \in 1..(MaxBeamCount + 1) :
         \E ps \in ShimPresets(module), mask \in ShimMasks(module) :
            block = ShimInput("BuildingBlockShimYoshimora", module, ps,
                              beam_count, mask)
    /\ tess = None /\ shim = None /\ branch = None
    /\ pos = <<0, 0>> /\ d = 0
    /\ end_shim = None /\ prev = None
    /\ ref_block = None /\ row_center = None
    /\ sink = <<>> /\ saves = <<>>

\* A shim sheet: the sizes of the panel tessellation, and sizes that are not
\* a tuple of two integers (ShimTesselation asserts nothing about size).
SheetSizes ==
    Sizes \cup { SizeArg("list", <<2, 2>>, {}),
                 SizeArg("tuple", <<2>>, {}),
                 SizeArg("tuple", <<2, 2, 2>>, {}),
                 SizeArg("int", <<3>>, {}),
                 SizeArg("tuple", <<2, 1>>, {2}) }

InitShimSheet ==
    /\ entry = "shim_sheet"
    /\ pc = "sheet_start"
    /\ \E size \in SheetSizes, beam_count \in 1..MaxBeamCount :
          \/ \E ps \in ShimPresets("yoshimora_miura_shim") :
                tess = ShimTesselation(
                           size, Origin, ps[1], ps[2], ps[3], ShimRatio,
                           Fx(MarginDefault), beam_count, DefaultGaps[1],
                           DefaultGaps[2], DefaultGaps[3], DefaultGaps[4])
          \/ \E ps \in ShimPresets("updated_yoshimora_miura_shim") :
                tess = updated_ShimTesselation(
                           size, Origin, ps[1], ps[2], ps[3], ShimRatio,
                           Fx(MarginDefault), beam_count, DefaultGaps[1],
                           DefaultGaps[2], DefaultGaps[3], DefaultGaps[4])
    /\ block = None /\ shim = None /\ branch = None
    /\ pos = <<0, 0>> /\ d = 0
    /\ end_shim = None /\ prev = None
    /\ ref_block = None /\ row_center = None
    /\ sink = <<>> /\ saves = <<>>

Init ==
    \/ InitBranch
    \/ InitBlock
    \/ InitTesselation
    \/ InitShimCenter
    \/ InitShimBlock
    \/ InitShimSheet

\* ---------------------------------------------------------------- actions
\* drawing.add of each primitive, in order; ctx = <<i, j, d>> is the grid
\* cell and direction index being drawn (bookkeeping, like ord).
Added(prims, ctx) ==
    [ k \in 1..Len(prims) |->
        [ kind |-> prims[k].kind, pts |-> prims[k].pts,
          ord |-> prims[k].ord, ctx |-> ctx ] ]

Ctx == <<pos[1], pos[2], d>>

InGrid(t, p) == p[1] < t.size[1] /\ p[2] < t.size[2]

\* for i in range(size[0]): for j in range(size[1]): the cell after p.
NextPosition(t, p) ==
    IF p[2] + 1 < t.size[2] THEN <<p[1], p[2] + 1>> ELSE <<p[1] + 1, 0>>

\* Branch.__call__ on a branch constructed by the caller.
BranchCallAction ==
    /\ pc = "branch_call"
    /\ IF BranchRaises(branch)
       THEN /\ pc' = "error"
            /\ UNCHANGED <<sink, saves>>
       ELSE /\ sink' = sink \o Added(BranchCall(branch), Ctx)
            /\ saves' = saves \o BranchSaves(branch, Len(sink))
            /\ pc' = "done"
    /\ UNCHANGED <<ref_block, row_center, shim, end_shim, prev, entry, tess, pos, block, d, branch>>

\* _draw_building_block, loop body, first half: an activated branch is
\* created and drawn.  branch_positions[i] and self.angles[i] raise
\* IndexError past the six directions.
BlockBranch ==
    /\ pc = "block_loop"
    /\ d < Len(block.activated_branch)
    /\ block.activated_branch[d + 1]
    /\ IF d >= Len(block.angles) \/ BranchCallRaises(block)
       THEN /\ pc' = "error"
            /\ UNCHANGED <<branch, sink, saves>>
       ELSE /\ branch' = _create_branch(
                            block, _compute_branch_position(block)[d + 1],
                            BranchLengthAt(block, d), block.angles[d + 1])
            /\ IF BranchRaises(branch')
               THEN /\ pc' = "error"
                    /\ UNCHANGED <<sink, saves>>
               ELSE /\ sink' = sink \o Added(BranchCall(branch'), Ctx)
                    /\ saves' = saves \o BranchSaves(branch', Len(sink))
                    /\ pc' = "support"
    /\ UNCHANGED <<ref_block, row_center, shim, end_shim, prev, entry, tess, pos, block, d>>

\* ... a deactivated branch is not drawn.
BlockSkipBranch ==
    /\ pc = "block_loop"
    /\ d < Len(block.activated_branch)
    /\ ~block.activated_branch[d + 1]
    /\ pc' = "support"
    /\ UNCHANGED <<ref_block, row_center, shim, end_shim, prev, entry, tess, pos, block, d, branch, sink, saves>>

\* Mutant: the centre support drawn for the activated directions only.
MutantBlockSupport_OnlyActive ==
    /\ pc = "support"
    /\ ~block.tape
    /\ IF d >= Len(block.angles)
       THEN /\ pc' = "error"
            /\ UNCHANGED <<d, sink, saves>>
       ELSE LET r == _draw_branch_center_support(
                         block, _compute_branch_position(block)[d + 1],
                         block.angles[d + 1])
            IN  IF ~block.activated_branch[d + 1]
                THEN /\ pc' = "block_loop"
                     /\ d' = d + 1
                     /\ UNCHANGED <<sink, saves>>
                ELSE /\ sink' = sink \o Added(r.added, Ctx)
                     /\ saves' = saves \o SupportSaves(r, Len(sink))
                     /\ IF r.raises
                        THEN /\ pc' = "error"
                             /\ UNCHANGED d
                        ELSE /\ pc' = "block_loop"
                             /\ d' = d + 1
    /\ UNCHANGED <<ref_block, row_center, shim, end_shim, prev, entry, tess, pos, block, branch>>

\* ... second half: the centre support, unless tape.
BlockSupport ==
    /\ pc = "support"
    /\ ~block.tape
    /\ IF d >= Len(block.angles)
       THEN /\ pc' = "error"
            /\ UNCHANGED <<d, sink, saves>>
       ELSE LET r == _draw_branch_center_support(
                         block, _compute_branch_position(block)[d + 1],
                         block.angles[d + 1])
            IN  /\ sink' = sink \o Added(r.added, Ctx)
                /\ saves' = saves \o SupportSaves(r, Len(sink))
                /\ IF r.raises
                   THEN /\ pc' = "error"
                        /\ UNCHANGED d
                   ELSE /\ pc' = "block_loop"
                        /\ d' = d + 1
    /\ UNCHANGED <<ref_block, row_center, shim, end_shim, prev, entry, tess, pos, block, branch>>

BlockSkipSupport ==
    /\ pc = "support"
    /\ block.tape
    /\ pc' = "block_loop"
    /\ d' = d + 1
    /\ UNCHANGED <<ref_block, row_center, shim, end_shim, prev, entry, tess, pos, block, branch, sink, saves>>

\* The loop of _draw_building_block is over: back to the caller.
BlockReturn ==
    /\ pc = "block_loop"
    /\ d = Len(block.activated_branch)
    /\ IF entry = "tesselation"
       THEN pc' = "tess_loop" /\ pos' = NextPosition(tess, pos)
       ELSE pc' = "done" /\ pos' = pos
    /\ UNCHANGED <<ref_block, row_center, shim, end_shim, prev, entry, tess, block, d, branch, sink, saves>>

\* YoshimoraTesselation.__init__: assert (type(size) == tuple) and
\* (len(size) == 2).
TesselationNew ==
    /\ pc = "tess_new"
    /\ pc' = IF tess.size_type = "tuple" /\ Len(tess.size) = 2
             THEN "tess_loop" ELSE "error"
    /\ UNCHANGED <<ref_block, row_center, shim, end_shim, prev, entry, tess, pos, block, d, branch, sink, saves>>

\* range(self.size[0]), and range(self.size[1]) in the first pass of the outer
\* loop, raise TypeError on a float.
RangeRaises(t) ==
    1 \in t.size_floats \/ (t.size[1] > 0 /\ 2 \in t.size_floats)

TesselationRangeError ==
    /\ pc = "tess_loop"
    /\ RangeRaises(tess)
    /\ pc' = "error"
    /\ UNCHANGED <<ref_block, row_center, shim, end_shim, prev, entry, tess, pos, block, d, branch, sink, saves>>

\* _draw_tesselation, loop body: the block of cell pos is built and called.
TesselationCell ==
    /\ pc = "tess_loop"
    /\ ~RangeRaises(tess)
    /\ InGrid(tess, pos)
    /\ block' = TesselationBlock(tess, pos)
    /\ d' = 0
    /\ pc' = "block_loop"
    /\ UNCHANGED <<ref_block, row_center, shim, end_shim, prev, entry, tess, pos, branch, sink, saves>>

TesselationReturn ==
    /\ pc = "tess_loop"
    /\ ~RangeRaises(tess)
    /\ ~InGrid(tess, pos)
    /\ pc' = "done"
    /\ UNCHANGED <<ref_block, row_center, shim, end_shim, prev, entry, tess, pos, block, d, branch, sink, saves>>

\* ------------------------------------------------------------ shim actions
\* _draw_shim of a shim block, first statements: the centre part is built
\* with every direction activated, and called.
ShimBlockCenter ==
    /\ pc = "shim_block_start"
    /\ shim' = [block EXCEPT !.cls = "ShimCenterPart",
                             !.activated_branch = AllTrue(Len(block.angles))]
    /\ d' = 0
    /\ end_shim' = None
    /\ pc' = "center_loop"
    /\ UNCHANGED <<ref_block, row_center, prev, entry, tess, pos, block, branch, sink, saves>>

\* The loop of the centre part, an activated direction.  branch_position[i]
\* raises IndexError past the directions; end_shim is read before it is
\* bound when no earlier direction was active (UnboundLocalError).
CenterLoopBranch ==
    /\ pc = "center_loop"
    /\ d < Len(shim.activated_branch)
    /\ shim.activated_branch[d + 1]
    /\ IF d >= Len(shim.angles) \/ (d # 0 /\ end_shim = None)
       THEN /\ pc' = "error"
            /\ UNCHANGED <<d, branch, end_shim, sink, saves>>
       ELSE LET added == CenterAdded(shim, d, end_shim)
            IN  /\ branch' = IF shim.module = "updated_yoshimora"
                             THEN branch ELSE CenterBranch(shim, d)
                /\ sink' = sink \o Added(added, Ctx)
                /\ saves' = saves
                              \o CenterSaves(shim, Len(sink) + Len(added))
                /\ end_shim' = CenterPoints(shim, d)[8]
                /\ d' = d + 1
                /\ pc' = pc
    /\ UNCHANGED <<ref_block, row_center, shim, prev, entry, tess, pos, block>>

\* ... a deactivated direction.
CenterLoopSkip ==
    /\ pc = "center_loop"
    /\ d < Len(shim.activated_branch)
    /\ ~shim.activated_branch[d + 1]
    /\ d' = d + 1
    /\ UNCHANGED <<ref_block, row_center, shim, end_shim, prev, entry, pc, tess, pos, block, branch,
                   sink, saves>>

\* After the loop: the closing line and the save; end_shim is unbound when
\* no direction was active.
CenterClose ==
    /\ pc = "center_loop"
    /\ d = Len(shim.activated_branch)
    /\ IF end_shim = None
       THEN /\ pc' = "error"
            /\ UNCHANGED <<d, sink, saves>>
       ELSE /\ sink' = sink
                         \o Added(<<CenterClosingLine(shim, end_shim)>>, Ctx)
            /\ saves' = Append(saves, Len(sink) + 1)
            /\ IF entry = "shim_center"
               THEN pc' = "done" /\ d' = d
               ELSE pc' = "sep_loop" /\ d' = 0
    /\ UNCHANGED <<ref_block, row_center, shim, end_shim, prev, entry, tess, pos, block, branch>>

\* The separator loop of a shim block, an activated direction with at least
\* one separator: branch_position[i] raises IndexError past the directions.
ShimBlockSeparators ==
    /\ pc = "sep_loop"
    /\ d < Len(block.activated_branch)
    /\ block.activated_branch[d + 1]
    /\ IF d >= Len(block.angles)
       THEN IF block.beam_count - 1 >= 1
            THEN /\ pc' = "error"
                 /\ UNCHANGED <<d, sink, saves>>
            ELSE /\ pc' = pc
                 /\ d' = d + 1
                 /\ UNCHANGED <<sink, saves>>
       ELSE /\ sink' = sink \o Added(Separators(block, d), Ctx)
            /\ saves' = saves \o SeparatorSaves(block, d, Len(sink))
            /\ d' = d + 1
            /\ pc' = pc
    /\ UNCHANGED <<ref_block, row_center, shim, end_shim, prev, entry, tess, pos, block, branch>>

\* ... a deactivated direction: every pass of the inner loop continues.
ShimBlockSkip ==
    /\ pc = "sep_loop"
    /\ d < Len(block.activated_branch)
    /\ ~block.activated_branch[d + 1]
    /\ d' = d + 1
    /\ UNCHANGED <<ref_block, row_center, shim, end_shim, prev, entry, pc, tess, pos, block, branch,
                   sink, saves>>

ShimBlockReturn ==
    /\ pc = "sep_loop"
    /\ d = Len(block.activated_branch)
    /\ IF entry = "shim_sheet"
       THEN /\ pc' = "sheet_row"
            /\ row_center' = NextRowCenter(tess, block, row_center)
            /\ pos' = <<pos[1], pos[2] + 1>>
       ELSE /\ pc' = "done"
            /\ UNCHANGED <<row_center, pos>>
    /\ UNCHANGED <<ref_block, shim, end_shim, prev, entry, tess, block, d,
                   branch, sink, saves>>

\* ------------------------------------------------------ shim sheet actions
\* _draw_shim_sheet, before the loop: the reference block at self.center.
SheetStart ==
    /\ pc = "sheet_start"
    /\ ref_block' = SheetBlock(tess, tess.center, AllTrue(6))
    /\ pos' = <<0, 0>>
    /\ pc' = "sheet_rows"
    /\ UNCHANGED <<row_center, shim, end_shim, prev, entry, tess, block, d,
                   branch, sink, saves>>

\* self.size[0], range(self.size[0]), self.size[1] and range(size) raise on
\* an int, on a float and on a missing entry.
SheetSizeRaises(t) ==
    \/ t.size_type = "int"
    \/ 1 \in t.size_floats
    \/ t.size[1] > 0 /\ (Len(t.size) < 2 \/ 2 \in t.size_floats)

SheetSizeError ==
    /\ pc = "sheet_rows"
    /\ SheetSizeRaises(tess)
    /\ pc' = "error"
    /\ UNCHANGED <<ref_block, row_center, shim, end_shim, prev, entry, tess,
                   pos, block, d, branch, sink, saves>>

\* for i in range(self.size[0]): _draw_row(i, ref_block.center, size[1])
\* begins.
SheetRow ==
    /\ pc = "sheet_rows"
    /\ ~SheetSizeRaises(tess)
    /\ pos[1] < tess.size[1]
    /\ row_center' = ref_block.center
    /\ pc' = "sheet_row"
    /\ UNCHANGED <<ref_block, shim, end_shim, prev, entry, tess, pos, block,
                   d, branch, sink, saves>>

\* _draw_row, loop body: the block of cell pos is built and called.
SheetCell ==
    /\ pc = "sheet_row"
    /\ pos[2] < tess.size[2]
    /\ block' = SheetBlock(tess, row_center,
                           ShimTesselation_compute_activated_branch(
                               tess, pos))
    /\ pc' = "shim_block_start"
    /\ UNCHANGED <<ref_block, row_center, shim, end_shim, prev, entry, tess,
                   pos, d, branch, sink, saves>>

\* _draw_row is over: the reference block of the next row.
SheetRowEnd ==
    /\ pc = "sheet_row"
    /\ pos[2] >= tess.size[2]
    /\ ref_block' = ShimTesselation_get_new_ref_block(tess, pos[1] + 1,
                                                      ref_block)
    /\ pos' = <<pos[1] + 1, 0>>
    /\ pc' = "sheet_rows"
    /\ UNCHANGED <<row_center, shim, end_shim, prev, entry, tess, block, d,
                   branch, sink, saves>>

SheetReturn ==
    /\ pc = "sheet_rows"
    /\ ~SheetSizeRaises(tess)
    /\ pos[1] >= tess.size[1]
    /\ pc' = "done"
    /\ UNCHANGED <<ref_block, row_center, shim, end_shim, prev, entry, tess,
                   pos, block, d, branch, sink, saves>>

\* ---------------------------------------------------------- a second run
\* Mutant: the second run draws into the drawing of the first.
MutantFreshDrawing_Shared == sink

\* dxf.drawing(name): a new, empty drawing.
FreshDrawing == << >>

\* Where the call of a tessellation begins.
StartOf(e) == IF e = "tesselation" THEN "tess_new" ELSE "sheet_start"

\* drawing=dxf.drawing("yoshimura_pattern.dxf") in a def statement: the
\* default is evaluated once, when the function is defined, so every
\* generator of the class constructed without a drawing argument holds that
\* one object, with whatever has been added to it and saved so far.
DefaultDrawing(drawing, saved) == <<drawing, saved>>

\* The generation has returned or raised; a tessellation with the same
\* arguments is generated once more, into a new drawing.  prev keeps what the
\* first run produced.
Rerun ==
    /\ entry \in {"tesselation", "shim_sheet"}
    /\ pc \in {"done", "error"}
    /\ prev = None
    /\ prev' = <<sink, saves, "given">>
    /\ sink' = FreshDrawing
    /\ saves' = << >>
    /\ pc' = StartOf(entry)
    /\ pos' = <<0, 0>>
    /\ d' = 0
    /\ block' = None /\ branch' = None /\ shim' = None /\ end_shim' = None
    /\ ref_block' = None /\ row_center' = None
    /\ UNCHANGED <<entry, tess>>

\* Two generators with the same arguments were constructed without a drawing
\* argument; the first has returned or raised and the second is called.  Its
\* self.drawing is the default of its class.
RerunDefault ==
    /\ entry \in {"tesselation", "shim_sheet"}
    /\ pc \in {"done", "error"}
    /\ prev = None
    /\ prev' = <<sink, saves, "default">>
    /\ sink' = DefaultDrawing(sink, saves)[1]
    /\ saves' = DefaultDrawing(sink, saves)[2]
    /\ pc' = StartOf(entry)
    /\ pos' = <<0, 0>>
    /\ d' = 0
    /\ block' = None /\ branch' = None /\ shim' = None /\ end_shim' = None
    /\ ref_block' = None /\ row_center' = None
    /\ UNCHANGED <<entry, tess>>

Next ==
    \/ BranchCallAction
    \/ BlockBranch
    \/ BlockSkipBranch
    \/ BlockSupport
    \/ BlockSkipSupport
    \/ BlockReturn
    \/ TesselationNew
    \/ TesselationRangeError
    \/ TesselationCell
    \/ TesselationReturn
    \/ ShimBlockCenter
    \/ CenterLoopBranch
    \/ CenterLoopSkip
    \/ CenterClose
    \/ ShimBlockSeparators
    \/ ShimBlockSkip
    \/ ShimBlockReturn
    \/ SheetStart
    \/ SheetSizeError
    \/ SheetRow
    \/ SheetCell
    \/ SheetRowEnd
    \/ SheetReturn
    \/ Rerun
    \/ RerunDefault

Spec == Init /\ [][Next]_vars

\* ============================================================== claims
\* The second of two generators constructed without a drawing argument is
\* being drawn, or has been.
SecondOnDefault == prev # None /\ prev[3] = "default"
\* Flush positions n further on, or -n further back.
Shifted(positions, n) == [k \in 1..Len(positions) |-> positions[k] + n]
\* What the current call has added to its drawing, and where it has flushed
\* it, counted from the call's first primitive: the whole drawing, unless the
\* drawing is the default that held the first generator's output before the
\* call began.
Emitted ==
    IF SecondOnDefault THEN SubSeq(sink, Len(prev[1]) + 1, Len(sink))
    ELSE sink
Flushed ==
    IF SecondOnDefault
    THEN Shifted(SubSeq(saves, Len(prev[2]) + 1, Len(saves)), -Len(prev[1]))
    ELSE saves
\* The block of the cell being drawn is in `block` while its loop runs.
InCell == entry = "tesselation" /\ pc \in {"block_loop", "support"}
\* The branch of direction d has just been created and drawn.
BranchDrawn == pc = "support" /\ block.activated_branch[d + 1]
\* ... or a branch called on its own has been drawn.
BranchDone == entry = "branch" /\ pc = "done"

CellInGrid(t, c) ==
    c[1] >= 0 /\ c[1] < t.size[1] /\ c[2] >= 0 /\ c[2] < t.size[2]
Cells(t) == (0..(t.size[1] - 1)) \X (0..(t.size[2] - 1))

\* The row-(i-1) neighbours of cell c along directions 1 and 2, and the
\* row-(i+1) neighbours along directions 4 and 5.
UpRight(c) == IF c[1] % 2 = 1 THEN <<c[1] - 1, c[2]>> ELSE <<c[1] - 1, c[2] + 1>>
UpLeft(c) == IF c[1] % 2 = 1 THEN <<c[1] - 1, c[2] - 1>> ELSE <<c[1] - 1, c[2]>>
DownLeft(c) == IF c[1] % 2 = 0 THEN <<c[1] + 1, c[2]>> ELSE <<c[1] + 1, c[2] - 1>>
DownRight(c) == IF c[1] % 2 = 0 THEN <<c[1] + 1, c[2] + 1>> ELSE <<c[1] + 1, c[2]>>

\* <<a, ka, b, kb>>: cells a and b are one branch apart, along direction ka
\* of a and direction kb of b.
SharedEdges(t) ==
    { e \in    { <<c, 0, <<c[1], c[2] + 1>>, 3>> : c \in Cells(t) }
          \cup { <<c, 1, UpRight(c), 4>> : c \in Cells(t) }
          \cup { <<c, 2, UpLeft(c), 5>> : c \in Cells(t) } :
        CellInGrid(t, e[3]) }

\* The sink holds a branch primitive of direction k of cell c.
Drawn(c, k) ==
    \E n \in DOMAIN Emitted :
        Emitted[n].ctx = <<c[1], c[2], k>> /\ Emitted[n].ord[1] = PartBranch

\* C1: in a tessellation of at least 2 x 2 cells, the branch between two
\* cells one branch apart is never drawn by both, and once the draw is over
\* it has been drawn by exactly one of them.
C1_SharedEdgeDrawnOnce ==
    (entry = "tesselation" /\ Len(tess.size) = 2
       /\ tess.size[1] >= 2 /\ tess.size[2] >= 2) =>
        \A e \in SharedEdges(tess) :
            /\ ~(Drawn(e[1], e[2]) /\ Drawn(e[3], e[4]))
            /\ pc = "done" => (Drawn(e[1], e[2]) \/ Drawn(e[3], e[4]))

C1_Witness ==
    /\ entry = "tesselation" /\ pc = "done" /\ tess.size = <<3, 3>>
    /\ Drawn(<<1, 0>>, 5) /\ ~Drawn(<<2, 0>>, 2)
    /\ Drawn(<<1, 1>>, 0) /\ ~Drawn(<<1, 2>>, 3)

\* C2 as stated: for the cell being drawn, mask entry 3 is False exactly
\* when the outer loop index i is positive.
C2_Original ==
    InCell => (block.activated_branch[4] = FALSE <=> pos[1] > 0)

\* C2 amended: mask entry 3 is False exactly when the inner loop index j is
\* positive (the cell has a neighbour (i, j-1) along direction 3).
C2_SpineMaskByColumn ==
    InCell => (block.activated_branch[4] = FALSE <=> pos[2] > 0)

C2_Witness ==
    /\ InCell /\ pos = <<0, 1>> /\ d = 3 /\ pc = "support"
    /\ block.activated_branch[4] = FALSE

\* C3: for the cell (i, j) being drawn in a grid of cols columns, mask entry
\* 2 is False exactly when (i > 0 and j > 0) or (j = 0, i even, i > 0), and
\* mask entry 1 is False exactly when (j < cols - 1 and i > 0) or
\* (j = cols - 1 and i odd).
C3_DiagonalMasks ==
    InCell =>
        LET i == pos[1]
            j == pos[2]
            cols == tess.size[2]
        IN  /\ block.activated_branch[3] =
                 ~((i > 0 /\ j > 0) \/ (j = 0 /\ i % 2 = 0 /\ i > 0))
            /\ block.activated_branch[2] =
                 ~((j < cols - 1 /\ i > 0) \/ (j = cols - 1 /\ i % 2 = 1))

C3_Witness ==
    /\ InCell /\ tess.size = <<3, 3>> /\ pos = <<2, 0>> /\ d = 6
    /\ block.activated_branch[3] = FALSE /\ block.activated_branch[2] = FALSE

\* The hub point of direction k (0-based) of the block of cell c.
HubPoint(t, c, k) == _compute_branch_position(TesselationBlock(t, c))[k + 1]

\* C4: in a tessellation, the end point of the branch just drawn along
\* direction 0 is the hub point of direction 3 of cell (i, j+1), along
\* direction 4 the hub point of direction 1 of the lower-left cell, along
\* direction 5 the hub point of direction 2 of the lower-right cell.
C4_BlocksMeet ==
    (InCell /\ BranchDrawn) =>
        /\ (d = 0 /\ CellInGrid(tess, <<pos[1], pos[2] + 1>>)) =>
              branch.end_point = HubPoint(tess, <<pos[1], pos[2] + 1>>, 3)
        /\ (d = 4 /\ CellInGrid(tess, DownLeft(pos))) =>
              branch.end_point = HubPoint(tess, DownLeft(pos), 1)
        /\ (d = 5 /\ CellInGrid(tess, DownRight(pos))) =>
              branch.end_point = HubPoint(tess, DownRight(pos), 2)

C4_Witness ==
    /\ InCell /\ BranchDrawn /\ tess.size = <<3, 3>> /\ pos = <<1, 1>> /\ d = 4
    /\ branch.end_point = HubPoint(tess, <<2, 0>>, 1)
    /\ branch.end_point # branch.position

\* The centre C5 states: origin + i*(2r + L) along -theta
\* + j*2*cos(theta)*(L + 2r) along 0, shifted by (2r + L)*cos(theta) for even i.
C5_StatedCentre(t, c) ==
    LET R == 2 * t.radius + t.length
        rowed == end_point_of_line(t.center, c[1] * R, AngNeg(Theta(t.angle)))
        moved == end_point_of_line(rowed, CosScalar(c[2] * 2 * R, t.angle), Deg(0))
        shift == IF c[1] % 2 = 0 THEN Num(CosScalar(R, t.angle)) ELSE Zero
    IN  <<NumAdd(moved[1], shift), moved[2]>>

\* C5 as stated.
C5_Original == InCell => block.center = C5_StatedCentre(tess, pos)

\* C5 amended: the row offset moves the centre vertically only.  The centre
\* is (x0 + j*2*cos(theta)*(L + 2r) + shift, y0 - i*(2r + L)*sin(theta)),
\* shift = (2r + L)*cos(theta) for even i and 0 for odd i.
C5_CentreFormula ==
    InCell =>
        LET R == 2 * tess.radius + tess.length
            c == tess.angle
            x == tess.center[1][1] + (pos[2] * 2 * R * c[1]) \div c[2]
                 + (IF pos[1] % 2 = 0 THEN (R * c[1]) \div c[2] ELSE 0)
        IN  block.center = << <<x, tess.center[1][2]>>,
                              <<tess.center[2][1],
                                tess.center[2][2] - pos[1] * R>> >>

C5_Witness ==
    /\ InCell /\ pos = <<2, 1>> /\ tess.center = OffCentre
    /\ block.center # C5_StatedCentre(tess, pos)

\* The primitives of the branch just drawn, and those of one side.
BranchPrims ==
    SelectSeq(Emitted, LAMBDA e : e.ctx = Ctx /\ e.ord[1] = PartBranch)
SidePrims(s) == SelectSeq(BranchPrims, LAMBDA e : e.ord[2] = s)
LastPoint(e) == e.pts[Len(e.pts)]
Feasible(b) == b.beam_count >= 1 /\ _get_extremity_length(b) >= 0
CutBranchDrawn ==
    /\ (InCell /\ BranchDrawn) \/ BranchDone
    /\ branch.cls = "Branch"

\* C6: on each side of a feasible cut branch just drawn, the first beam unit
\* starts at the inner end of the first extremity line, every later unit
\* starts at the last point of the unit before it, the last unit ends at the
\* inner end of the second extremity line, and
\* 2*extremityLength + beam_count*beam_length + (beam_count-1)*beam_gap
\* = length.
C6_BeamsChain ==
    (CutBranchDrawn /\ Feasible(branch)) =>
        /\ 2 * _get_extremity_length(branch)
             + branch.beam_count * branch.beam_length
             + (branch.beam_count - 1) * branch.beam_gap = branch.length
        /\ \A s \in {0, 1} :
             LET p == SidePrims(s)
             IN  /\ Len(p) = 2 + branch.beam_count
                 /\ p[3].pts[1] = p[1].pts[2]
                 /\ \A k \in 4..Len(p) : p[k].pts[1] = LastPoint(p[k - 1])
                 /\ LastPoint(p[Len(p)]) = p[2].pts[2]

C6_Witness ==
    /\ CutBranchDrawn /\ Feasible(branch) /\ branch.beam_count = 2
    /\ _get_extremity_length(branch) > 0
    /\ Len(SidePrims(1)) = 4
    /\ SidePrims(1)[4].pts[1] = LastPoint(SidePrims(1)[3])

\* C7: the branch just drawn by a building block has length
\* 2*cos(theta)*(length + 2*radius) - 2*radius at direction 0 or 3 and the
\* nominal length at directions 1, 2, 4, 5; at 60 degrees, radius 2 and
\* length 25 the spine length is 25.
C7_SpineLength ==
    (pc = "support" /\ block.activated_branch[d + 1]) =>
        /\ branch.length =
             IF d \in {0, 3}
             THEN (2 * block.angle[1] * (block.length + 2 * block.radius))
                      \div block.angle[2] - 2 * block.radius
             ELSE block.length
        /\ (d \in {0, 3} /\ block.angle = Theta60 /\ block.radius = Fx(200)
              /\ block.length = Fx(2500)) => branch.length = Fx(2500)

C7_Witness ==
    /\ pc = "support" /\ block.activated_branch[d + 1] /\ d = 3
    /\ block.angle = Theta37 /\ branch.length = Fx(4620)

\* The primitives of the block of cell pos, by kind.
BlockPrims(kind) ==
    { n \in DOMAIN Emitted :
        Emitted[n].ctx[1] = pos[1] /\ Emitted[n].ctx[2] = pos[2]
        /\ Emitted[n].kind = kind }
ActiveCount(blk) ==
    Cardinality({ k \in DOMAIN blk.activated_branch : blk.activated_branch[k] })
BlockOver == pc = "block_loop" /\ d = Len(block.activated_branch)

\* C8: when a cut-style block (six mask entries) with k active directions and
\* beam_count n is over, the sink holds 4k + 18 lines and 2nk polylines of
\* it; with all six directions active and n = 2 that is 66 primitives.
C8_BlockPrimitiveCount ==
    (BlockOver /\ ~block.tape /\ Len(block.activated_branch) = 6) =>
        /\ Cardinality(BlockPrims("line")) = 4 * ActiveCount(block) + 18
        /\ Cardinality(BlockPrims("polyline")) =
             2 * block.beam_count * ActiveCount(block)
        /\ (ActiveCount(block) = 6 /\ block.beam_count = 2 /\ entry = "block")
             => Len(Emitted) = 66

C8_Witness ==
    /\ BlockOver /\ ~block.tape /\ entry = "block"
    /\ ActiveCount(block) = 6 /\ block.beam_count = 2 /\ Len(Emitted) = 66

\* The place of a primitive in the traversal: cell, direction, part (branch
\* before support), side (+90 before -90), index on the side.
Key(e) == <<e.ctx[1], e.ctx[2], e.ctx[3], e.ord[1], e.ord[2], e.ord[3]>>
LexLess(a, b) ==
    \E k \in 1..Len(a) : a[k] < b[k] /\ \A m \in 1..(k - 1) : a[m] = b[m]

\* C9: the primitives a branch, a block or a tessellation puts in the sink
\* are in traversal order: cells row-major, directions ascending, a
\* direction's branch before its support, the +90 side before the -90 side,
\* extremity lines before beams in axial order.
C9_TraversalOrder ==
    entry \in {"branch", "block", "tesselation"} =>
        \A n \in 1..(Len(Emitted) - 1) : LexLess(Key(Emitted[n]), Key(Emitted[n + 1]))

C9_Witness ==
    /\ entry = "tesselation" /\ pc = "done" /\ tess.size = <<2, 2>>
    /\ ~tess.tape /\ tess.beam_count = 2
    /\ \E n \in 1..(Len(Emitted) - 1) :
         /\ Key(Emitted[n]) = <<0, 1, 5, 1, 0, 2>>
         /\ Key(Emitted[n + 1]) = <<1, 0, 0, 0, 0, 0>>

\* C10 as stated: a cut branch with beam_count < 1 or a negative extremity
\* length is rejected before anything is added to the sink.
C10_InfeasibleRejected ==
    (entry = "branch" /\ branch.cls = "Branch" /\ ~Feasible(branch)) =>
        (Emitted = <<>> /\ pc # "done")

\* The cells and directions whose branch is in the sink.
BranchesDrawn(t) == { e \in Cells(t) \X (0..5) : Drawn(e[1], e[2]) }
\* sink[n] is the last primitive of its branch or of its centre support.
EndOfPart(n) ==
    \/ n = Len(Emitted)
    \/ /\ n >= 1 /\ n < Len(Emitted)
       /\ <<Emitted[n].ctx, Emitted[n].ord[1]>> # <<Emitted[n + 1].ctx, Emitted[n + 1].ord[1]>>
TesselationOver == entry = "tesselation" /\ pc = "done"

\* C13 as stated: when a tessellation call is over, the sink has been saved
\* exactly once, after the last primitive.
C13_Original == TesselationOver => Flushed = <<Len(Emitted)>>

\* C13 amended: when a tessellation call is over, the sink has been saved
\* once for every branch drawn and, in cut style, once for every centre
\* support (six per cell); every save came right after the last primitive of
\* a branch or of a centre support, and the last one after the last primitive
\* of the run.
C13_FlushPerBranchAndSupport ==
    TesselationOver =>
        /\ Len(Flushed) = Cardinality(BranchesDrawn(tess))
                        + (IF tess.tape THEN 0
                           ELSE 6 * Cardinality(Cells(tess)))
        /\ \A k \in DOMAIN Flushed : EndOfPart(Flushed[k])
        /\ \A k \in 1..(Len(Flushed) - 1) : Flushed[k] < Flushed[k + 1]
        /\ Len(Emitted) > 0 => Flushed[Len(Flushed)] = Len(Emitted)

C13_Witness ==
    /\ TesselationOver /\ tess.size = <<2, 2>> /\ ~tess.tape
    /\ tess.beam_count = 2
    /\ Len(Emitted) = 224 /\ Len(Flushed) = 43 /\ Flushed[43] = 224 /\ Flushed[1] = 8

\* C14: a branch drawn on its own leaves exactly one save, made when all its
\* primitives are in the sink; a branch drawn by a building block adds one
\* save, after its last primitive, and none between its first and its last.
C14_BranchFlushedOnce ==
    /\ BranchDone => Flushed = <<Len(Emitted)>>
    /\ (pc = "support" /\ block.activated_branch[d + 1]) =>
           LET first == Len(Emitted) - Len(BranchPrims)
           IN  /\ Len(BranchPrims) >= 1
               /\ Len(Flushed) >= 1
               /\ Flushed[Len(Flushed)] = Len(Emitted)
               /\ \A k \in 1..(Len(Flushed) - 1) : Flushed[k] <= first

C14_Witness ==
    /\ entry = "block" /\ pc = "support" /\ d = 2 /\ ~block.tape
    /\ block.beam_count = 2 /\ block.activated_branch[3]
    /\ Len(BranchPrims) = 8 /\ Len(Emitted) = 30
    /\ Flushed = <<8, 11, 19, 22, 30>>

\* The primitives of the sink made for cell c, direction k, by statement o.
PrimsAt(c, k, o) ==
    SelectSeq(Emitted, LAMBDA e : e.ctx = <<c[1], c[2], k>> /\ e.ord = o)
AllActive(blk) ==
    Len(blk.activated_branch) = 6
    /\ \A k \in 1..6 : blk.activated_branch[k]
\* Direction d - 1 of the block has its branch and its centre support drawn.
DirectionOver == pc = "block_loop" /\ d >= 1 /\ d <= 6

WrongMask ==
    entry = "block" /\ Len(block.activated_branch) # Len(block.angles)

\* C11 as stated: a block whose mask has not one entry per direction fails
\* before anything is added to the sink or saved.
C11_WrongMaskRejected ==
    WrongMask => (Emitted = <<>> /\ Flushed = <<>> /\ pc # "done")

\* size is a tuple of two non-negative integers.
ValidSize(t) ==
    /\ t.size_type = "tuple" /\ Len(t.size) = 2 /\ t.size_floats = {}
    /\ \A k \in DOMAIN t.size : t.size[k] >= 0

\* C12 as stated: a tessellation whose size is not a tuple of two
\* non-negative integers fails, with nothing added to the sink: it never
\* returns normally.
C12_InvalidSizeRejected ==
    (entry = "tesselation" /\ ~ValidSize(tess)) =>
        (Emitted = <<>> /\ pc # "done")

\* The tape branch just drawn by a block of one of the modules ms: beam_count
\* polylines, each a rectangle that comes back to its first point, beam_width
\* wide with the branch axis in its middle, beam_length long, the first
\* points beam_length + beam_gap apart; and the block has added no line.
TapeRectangles(ms) ==
    /\ (entry = "block" /\ block.tape /\ block.module \in ms
          /\ Len(block.activated_branch) = 6) => pc # "error"
    /\ (pc = "support" /\ block.tape /\ block.module \in ms
          /\ block.activated_branch[d + 1]) =>
           LET p == BranchPrims
               b == branch
               first == end_point_of_line(
                            end_point_of_line(b.position,
                                              _get_extremity_length(b),
                                              b.angle),
                            b.beam_width \div 2, AngAdd(b.angle, -90))
           IN  /\ Len(p) = b.beam_count
               /\ p[1].pts[1] = first
               /\ \A k \in 1..Len(p) :
                    /\ p[k].kind = "polyline" /\ Len(p[k].pts) = 5
                    /\ p[k].pts[5] = p[k].pts[1]
                    /\ p[k].pts[2] = end_point_of_line(
                           p[k].pts[1], b.beam_width, AngAdd(b.angle, 90))
                    /\ p[k].pts[3] = end_point_of_line(
                           p[k].pts[2], b.beam_length, b.angle)
                    /\ p[k].pts[4] = end_point_of_line(
                           p[k].pts[1], b.beam_length, b.angle)
                    /\ k > 1 => p[k].pts[1] = end_point_of_line(
                           p[k - 1].pts[1], b.beam_length + b.beam_gap,
                           b.angle)
    /\ (pc \in {"block_loop", "support"} /\ block.tape
          /\ block.module \in ms) => BlockPrims("line") = {}
    /\ (BlockOver /\ block.tape /\ block.module \in ms) =>
           Cardinality(BlockPrims("polyline"))
               = block.beam_count * ActiveCount(block)

\* C16 as stated, for the tape style of every module.
C16_TapeRectangles == TapeRectangles(Modules)

\* C16 for yoshimora_miura_plastic.py alone.
C16_TapeRectanglesPlastic == TapeRectangles({"yoshimora_miura_plastic"})

\* A tape block of yoshimora_miura_plastic.py, all drawn.
C16_PlasticWitness ==
    /\ entry = "block" /\ BlockOver /\ block.tape
    /\ block.module = "yoshimora_miura_plastic" /\ AllActive(block)
    /\ block.beam_count = 2 /\ Len(Emitted) = 12

\* A centre part called on its own, with one mask entry per direction and at
\* least one of them True.
CenterCase ==
    /\ entry = "shim_center"
    /\ Len(shim.activated_branch) = Len(shim.angles)
    /\ ActiveCount(shim) >= 1
Outlines == SelectSeq(Emitted, LAMBDA e : e.kind = "polyline")
\* The sink of a finished centre part is one closed loop: k outlines of 8
\* points for k active directions, in direction order; between two
\* consecutive outlines a line from the later one's start to the earlier
\* one's end; last a line from the last outline's end to the first one's
\* start.
ClosedLoop ==
    LET k == ActiveCount(shim)
    IN  /\ Len(Outlines) = k
        /\ Len(Emitted) = 2 * k
        /\ \A m \in 1..k :
             /\ Len(Outlines[m].pts) = 8
             /\ Emitted[2 * m - 1] = Outlines[m]
             /\ shim.activated_branch[Outlines[m].ctx[3] + 1]
             /\ m < k => /\ Outlines[m].ctx[3] < Outlines[m + 1].ctx[3]
                         /\ Emitted[2 * m].kind = "line"
                         /\ Emitted[2 * m].pts = << Outlines[m + 1].pts[1],
                                                 Outlines[m].pts[8] >>
        /\ Emitted[2 * k].kind = "line"
        /\ Emitted[2 * k].pts = << Outlines[k].pts[8], Outlines[1].pts[1] >>

\* C17 as stated: for every mask with an active direction the centre part
\* never raises and leaves one closed loop of outlines, join lines and a
\* closing line.
C17_CenterClosedLoop ==
    CenterCase => /\ pc # "error"
                  /\ pc = "done" => ClosedLoop

\* C17 for the masks whose entry 0 is True.
C17_CenterClosedLoopFromZero ==
    (CenterCase /\ shim.activated_branch[1]) =>
        /\ pc # "error"
        /\ pc = "done" => ClosedLoop

\* A finished centre part with directions 0, 2 and 5 active.
C17_FromZeroWitness ==
    /\ CenterCase /\ pc = "done"
    /\ shim.activated_branch = <<TRUE, FALSE, TRUE, FALSE, FALSE, TRUE>>
    /\ Len(Emitted) = 6 /\ Flushed = <<1, 3, 5, 6>>

\* Products in the coordinates p + q*sin(theta), times cd*cd:
\* sin(theta)^2 = (cd*cd - cn*cn) / (cd*cd).
NumMul(x, y, th) ==
    << th[2] * th[2] * x[1] * y[1]
           + x[2] * y[2] * (th[2] * th[2] - th[1] * th[1]),
       th[2] * th[2] * (x[1] * y[2] + x[2] * y[1]) >>
\* The cross and the dot product of a vector with the direction of an angle,
\* up to a positive factor.
Cross(v, a) ==
    NumSub(NumMul(v[1], MulSin(a[1][2], a), a[1]),
           NumMul(v[2], MulCos(a[1][2], a), a[1]))
Dot(v, a) ==
    NumAdd(NumMul(v[1], MulCos(a[1][2], a), a[1]),
           NumMul(v[2], MulSin(a[1][2], a), a[1]))
Sum(p, q) == << NumAdd(p[1], q[1]), NumAdd(p[2], q[2]) >>

ShimBlockDone ==
    /\ entry = "shim_block" /\ pc = "done"
    /\ Len(block.activated_branch) = Len(block.angles)
\* The separators and the centre outline of direction i of the block.
SeparatorsOf(i) ==
    SelectSeq(Emitted, LAMBDA e : e.ord[1] = PartSep /\ e.ctx[3] = i)
OutlineOf(i) ==
    SelectSeq(Emitted, LAMBDA e : e.ord = <<PartShim, 1, 0>> /\ e.ctx[3] = i)[1]
\* A separator polyline of direction angle a is closed, has 12 distinct
\* vertices, and vertex k mirrors vertex 13 - k in the axis of the branch:
\* the line of direction a through the middle of the end of the centre
\* outline (its points 3 and 4).
SeparatorShape(e, a, outline) ==
    /\ e.kind = "polyline"
    /\ Len(e.pts) = 13
    /\ e.pts[13] = e.pts[1]
    /\ Cardinality({ e.pts[k] : k \in 1..12 }) = 12
    /\ \A k \in 1..6 :
         /\ Dot(vector_difference(e.pts[13 - k], e.pts[k]), a) = Zero
         /\ Cross(vector_difference(Sum(e.pts[k], e.pts[13 - k]),
                                    Sum(outline.pts[4], outline.pts[5])),
                  a) = Zero
         /\ e.pts[13 - k] # e.pts[k]
SeparatorsAsCounted(count(_)) ==
    ShimBlockDone =>
        \A i \in 0..(Len(block.angles) - 1) :
            /\ Len(SeparatorsOf(i)) =
                   IF block.activated_branch[i + 1] THEN count(i) ELSE 0
            /\ \A n \in 1..Len(SeparatorsOf(i)) :
                   SeparatorShape(SeparatorsOf(i)[n], block.angles[i + 1],
                                  OutlineOf(i))

\* C18 as stated: beam_count - 1 separators for every active direction.
C18_Original ==
    SeparatorsAsCounted(LAMBDA i : block.beam_count - 1)

\* C18: a finished shim block holds no separator of an inactive direction
\* and, of an active direction, one separator per gap between the beam units
\* of that direction: beam_count - 1, and 2 * count_beam - 1 on the
\* directions 90 and -90 of updated_yoshimora.py, which carry twice the beam
\* units; every separator is a closed polyline with 12 distinct vertices,
\* mirror-symmetric about the branch axis.
C18_SeparatorPerGap ==
    SeparatorsAsCounted(
        LAMBDA i : IF block.module = "updated_yoshimora" /\ i \in {2, 6}
                   THEN 2 * block.beam_count - 1
                   ELSE block.beam_count - 1)

\* A finished block of updated_yoshimora.py with beam_count 2 and the
\* directions 0, 90, 180 and -90 active: three separators on direction 2 (90
\* degrees), one on direction 0, none on direction 1.
C18_Witness ==
    /\ ShimBlockDone /\ block.module = "updated_yoshimora"
    /\ block.beam_count = 2
    /\ block.activated_branch
           = <<TRUE, FALSE, TRUE, FALSE, TRUE, FALSE, TRUE, FALSE>>
    /\ Len(SeparatorsOf(2)) = 3 /\ Len(SeparatorsOf(0)) = 1
    /\ Len(SeparatorsOf(1)) = 0
    /\ Len(Emitted) = 24

\* The centre part of a shim generator has just built the ShimBranch of
\* direction d - 1.
ShimBranchBuilt ==
    /\ entry \in {"shim_center", "shim_block"} /\ pc = "center_loop"
    /\ shim.module # "updated_yoshimora"
    /\ d >= 1 /\ d <= Len(shim.angles)
    /\ shim.activated_branch[d]
\* The length of direction i as C19 states it.
StatedLength(s, i) ==
    IF Len(s.angles) = 6
    THEN IF i \in {0, 3}
         THEN CosScalar(2 * (s.length + 2 * s.radius), s.angle) - 2 * s.radius
         ELSE s.length
    ELSE IF i \in {0, 4}
         THEN CosScalar(2 * (s.length + 2 * s.radius), s.angle) - 2 * s.radius
         ELSE IF i \in {2, 6}
              THEN SinScalar(2 * (s.length + 2 * s.radius), s.angle)
                       - 2 * s.radius
              ELSE s.length
\* The length the building-block generator of the same hub kind uses.
GeneratorLength(s, i) ==
    IF Len(s.angles) = 6 THEN BranchLengthAt(s, i) ELSE UpdatedLength(s, i)
ShimLengthsAgree(modules) ==
    (ShimBranchBuilt /\ shim.module \in modules) =>
        /\ branch.length = GeneratorLength(shim, d - 1)
        /\ branch.length = StatedLength(shim, d - 1)
        /\ ShimBranchLengthAt(shim, d - 1) = branch.length

\* C19 as stated: for every direction the shim generators use the branch
\* length of the building-block generator of the same hub kind.
C19_ShimLengthsAgree == ShimLengthsAgree(ShimModules)

\* C19 for the six-direction hub of yoshimora_miura_shim.py.
C19_ShimLengthsAgreeSix == ShimLengthsAgree({"yoshimora_miura_shim"})

\* The six-direction centre part has built the branch of direction 3.
C19_SixWitness ==
    /\ ShimBranchBuilt /\ shim.module = "yoshimora_miura_shim" /\ d = 4
    /\ shim.angle = Theta37 /\ branch.length = Fx(4620)

C22_CellZeroAtCenter ==
    (InCell /\ pos = <<0, 0>>) => block.center = tess.center

\* C30: while a cell of a tessellation of six-direction blocks is drawn, its
\* mask has exactly 6 entries, entries 0, 4 and 5 are True, the mask of cell
\* (0, 0) is all True, and the mask is the one computed from the cell's own
\* position and the grid size, whatever cells were drawn before it.
C30_MaskShape ==
    (InCell /\ Len(block.angles) = 6) =>
        /\ Len(block.activated_branch) = 6
        /\ block.activated_branch[1]
        /\ block.activated_branch[5]
        /\ block.activated_branch[6]
        /\ pos = <<0, 0>> => block.activated_branch = AllTrue(6)
        /\ block.activated_branch = _get_activated_branch(tess, pos)

\* The last cell of a 3 x 3 grid, with branches 2 and 3 switched off, is
\* being drawn after all the others.
C30_Witness ==
    /\ InCell /\ tess.size = <<3, 3>> /\ pos = <<2, 2>> /\ d = 5
    /\ block.activated_branch = <<TRUE, TRUE, FALSE, FALSE, TRUE, TRUE>>
    /\ Len(Emitted) > 0

\* The support primitives of direction k of the cell being drawn.
StrutsOf(k) ==
    SelectSeq(Emitted, LAMBDA e : e.ctx = <<pos[1], pos[2], k>>
                               /\ e.ord[1] = PartSupport)
\* The tick that starts at `start` and runs radius/2 toward the hub centre.
Tick(blk, start) ==
    <<start, <<start[1], start[2],
               <<vector_difference(blk.center, start), Half(blk.radius)>> >> >>

\* C23: in a cut-style block, once direction k of the mask is over, the sink
\* holds exactly three support lines of it, whether mask entry k is True or
\* False: a tick from the hub point displaced by panel_gap/2 at -90 degrees
\* from the branch direction, a tick from the hub point displaced by
\* panel_gap/2 at +90 degrees, each running radius/2 toward the hub centre,
\* and a line joining the two tick ends, in that order; branch primitives of
\* direction k are in the sink exactly when mask entry k is True.
C23_ThreeStrutLines ==
    (DirectionOver /\ ~block.tape) =>
        LET k == d - 1
            hub == _compute_branch_position(block)[k + 1]
            axis == block.angles[k + 1]
            start1 == end_point_of_line(hub, Half(block.panel_gap),
                                        AngAdd(axis, -90))
            start2 == end_point_of_line(hub, Half(block.panel_gap),
                                        AngAdd(axis, 90))
            struts == StrutsOf(k)
        IN  /\ Len(struts) = 3
            /\ \A n \in 1..3 : struts[n].kind = "line"
            /\ struts[1].pts = Tick(block, start1)
            /\ struts[2].pts = Tick(block, start2)
            /\ struts[3].pts = <<struts[1].pts[2], struts[2].pts[2]>>
            /\ block.activated_branch[k + 1] <=>
                 \E n \in DOMAIN Emitted :
                     /\ Emitted[n].ctx = <<pos[1], pos[2], k>>
                     /\ Emitted[n].ord[1] = PartBranch

\* A block with every direction deactivated is over: 18 support lines and
\* nothing else.
C23_Witness ==
    /\ entry = "block" /\ BlockOver /\ ~block.tape
    /\ block.activated_branch = <<FALSE, FALSE, FALSE, FALSE, FALSE, FALSE>>
    /\ block.radius = Fx(200) /\ block.panel_gap = Fx(PanelGapDefault)
    /\ Len(Emitted) = 18 /\ Len(StrutsOf(5)) = 3

\* The vectors handed to normalize_vector for direction k of the block: hub
\* centre minus the start of the tick at -90 degrees, and at +90 degrees.
StrutVectors(blk, k) ==
    LET hub == _compute_branch_position(blk)[k + 1]
    IN  { vector_difference(
              blk.center,
              end_point_of_line(hub, Half(blk.panel_gap),
                                AngAdd(blk.angles[k + 1], s))) : s \in {-90, 90} }

\* C24: in a cut-style block with one mask entry per direction, the strut
\* computation has raised exactly when a vector handed to normalize_vector
\* was the zero vector, and that happens only with radius = 0 and
\* panel_gap = 0: with such a hub no direction is ever completed, and with
\* radius > 0 or panel_gap > 0 no vector of any direction is zero and the
\* block never raises.
C24_NormalizeZeroOnly ==
    (entry \in {"block", "tesselation"} /\ block # None /\ ~block.tape
       /\ Len(block.activated_branch) = 6) =>
        LET degenerate == block.radius = 0 /\ block.panel_gap = 0
        IN  /\ pc = "error" =>
                  /\ \E v \in StrutVectors(block, d) : IsZeroVector(v)
                  /\ degenerate
            /\ degenerate => ~DirectionOver
            /\ ~degenerate =>
                  \A k \in 0..5 : \A v \in StrutVectors(block, k) :
                      ~IsZeroVector(v)

\* A hub of radius 0 with no panel gap: the first strut has raised, after
\* the branch of direction 0 was drawn.
C24_Witness ==
    /\ entry = "block" /\ pc = "error" /\ d = 0 /\ ~block.tape
    /\ block.radius = 0 /\ block.panel_gap = 0
    /\ block.activated_branch[1]
    /\ Len(Emitted) > 0 /\ StrutsOf(0) = << >>

\* Hubs with radius 0 or no panel gap, but not both, are drawn to the end.
C24_NonDegenerateWitness ==
    /\ entry = "block" /\ BlockOver /\ ~block.tape
    /\ block.radius = 0 /\ block.panel_gap = Fx(PanelGapDefault)
    /\ Len(StrutsOf(5)) = 3

\* The reference block of row i of the shim sheet t, as _draw_shim_sheet's
\* loop computes it.
RECURSIVE RowRef(_, _)
RowRef(t, i) ==
    IF i = 0 THEN SheetBlock(t, t.center, AllTrue(6))
    ELSE ShimTesselation_get_new_ref_block(t, i, RowRef(t, i - 1))

\* The centre reached from the shim block `old` by going along its branch k
\* (4 = down-left, 5 = down-right) to the block at the other end of it.
SteppedCentre(t, old, k) ==
    ShimTesselation_get_center_position(
        t, IF k = 4 THEN 1 ELSE 2,
        end_point_of_line(ShimCenterPart_get_branch_position(old)[k + 1],
                          ShimBranchLengthAt(old, k), old.angles[k + 1]))

\* A row of the shim sheet of yoshimora_miura_shim.py is being drawn.
ShimRowBegun ==
    /\ entry = "shim_sheet" /\ pc = "sheet_row"
    /\ tess.module = "yoshimora_miura_shim"
\* The branch C27 states for the step from row i to row i + 1.
StatedStagger(i) == IF i % 2 = 0 THEN 4 ELSE 5

\* C27: in the shim sheet, the first cell of row i + 1 is the one reached
\* from the first cell of row i along branch 4 (down-left) when i is even
\* and along branch 5 (down-right) when i is odd, as in the panel sheet.
C27_ShimStaggerAsPanel ==
    (ShimRowBegun /\ pos[1] >= 1) =>
        ref_block.center =
            SteppedCentre(tess, RowRef(tess, pos[1] - 1),
                          StatedStagger(pos[1] - 1))

\* What the shim sheet does: the step from row i to row i + 1 goes along
\* branch 5 when i is even and along branch 4 when i is odd.
C27_ShimStaggerOpposite ==
    (ShimRowBegun /\ pos[1] >= 1) =>
        /\ ref_block = RowRef(tess, pos[1])
        /\ ref_block.center =
               SteppedCentre(tess, RowRef(tess, pos[1] - 1),
                             9 - StatedStagger(pos[1] - 1))

\* What the panel sheet does: the step from the first cell of row i to the
\* first cell of row i + 1 is (2r + L) along direction 180 + theta when i is
\* even and along -theta when i is odd.
C27_PanelStagger ==
    (InCell /\ pos[1] >= 1 /\ pos[2] = 0) =>
        block.center =
            end_point_of_line(
                _get_block_center(tess, <<pos[1] - 1, 0>>),
                2 * tess.radius + tess.length,
                block.angles[StatedStagger(pos[1] - 1) + 1])

C27_OppositeWitness ==
    /\ ShimRowBegun /\ pos = <<2, 1>>
    /\ ref_block.center # tess.center
    /\ Len(Emitted) > 0

\* The cut branch of direction i of a 6-direction hub with the parameters of
\* the shim block blk, at the branch position bp.
CutBranchOf(blk, i, bp) ==
    Branch("Branch", bp, BranchLengthAt(blk, i), blk.angles[i + 1],
           blk.beam_count, blk.panel_gap, blk.beam_gap, blk.beam_length,
           blk.beam_width)
\* The centre C28 states for separator k of direction i: the middle of the
\* k-th gap between the beam units of the cut branch.
StatedSeparatorCentre(blk, i, k) ==
    LET bp == ShimCenterPart_get_branch_position(blk)[i + 1]
    IN  end_point_of_line(
            bp,
            _get_extremity_length(CutBranchOf(blk, i, bp))
                + (k + 1) * blk.beam_length + k * blk.beam_gap
                + Half(blk.beam_gap),
            blk.angles[i + 1])
\* The point at distance `along` from c along the axis a and `across` to its
\* left.
Corner(c, a, along, across) ==
    end_point_of_line(end_point_of_line(c, along, a), across, AngAdd(a, 90))

\* C28: in a finished 6-direction shim block, for every active direction i
\* and every k in 0..beam_count-2, separator k of the direction is laid about
\* the stated centre (extremity length of the cut branch of the same length
\* + (k+1)*beam_length + k*beam_gap + beam_gap/2 from the branch position,
\* along the branch axis): its corners are at (beam_gap + margin)/2 before
\* and beyond that centre and width/2 to either side of the axis, and every
\* vertex lies at 0, margin, beam_gap or beam_gap + margin along the axis
\* from the near end.
C28_SeparatorCentres ==
    (ShimBlockDone /\ block.module = "yoshimora_miura_shim") =>
        \A i \in 0..5 : block.activated_branch[i + 1] =>
            /\ Len(SeparatorsOf(i)) = block.beam_count - 1
            /\ \A k \in 0..(block.beam_count - 2) :
                 LET a == block.angles[i + 1]
                     c == StatedSeparatorCentre(block, i, k)
                     h == Half(block.beam_gap + block.margin)
                     w == Half(block.width)
                     e == SeparatorsOf(i)[k + 1]
                 IN  /\ e.pts[1] = Corner(c, a, -h, w)
                     /\ e.pts[6] = Corner(c, a, h, w)
                     /\ e.pts[7] = Corner(c, a, h, -w)
                     /\ e.pts[12] = Corner(c, a, -h, -w)
                     /\ \A n \in 1..13 :
                          \E t \in {0, block.margin, block.beam_gap,
                                    block.beam_gap + block.margin} :
                              Dot(vector_difference(
                                      e.pts[n], Corner(c, a, t - h, 0)), a)
                                = Zero

\* A finished block with three beam units per branch and the directions 1
\* and 3 active: two separators on each, the second one beam_length +
\* beam_gap further along the axis than the first.
C28_Witness ==
    /\ ShimBlockDone /\ block.module = "yoshimora_miura_shim"
    /\ block.beam_count = 3
    /\ block.activated_branch = <<FALSE, TRUE, FALSE, TRUE, FALSE, FALSE>>
    /\ Len(SeparatorsOf(1)) = 2 /\ Len(SeparatorsOf(3)) = 2
    /\ SeparatorsOf(1)[2].pts[1] =
           end_point_of_line(SeparatorsOf(1)[1].pts[1],
                             block.beam_length + block.beam_gap,
                             block.angles[2])

\* A grid of at least 1 x 1, and parameters with which every branch of a
\* six-direction block has room for its beam units.
GridAtLeastOne(t) == ValidSize(t) /\ t.size[1] >= 1 /\ t.size[2] >= 1
FeasibleSheet(t) ==
    LET units == t.beam_count * t.beam_length
                     + (t.beam_count - 1) * t.beam_gap
    IN  /\ t.beam_count >= 1
        /\ units <= t.length
        /\ units <= CosScalar(2 * (t.length + 2 * t.radius), t.angle)
                        - 2 * t.radius
\* A top-level call has not raised, and when it has returned the sink holds
\* at least one primitive and was saved after the last one.
CompletesFlushed ==
    /\ pc # "error"
    /\ pc = "done" =>
         /\ Len(Emitted) >= 1
         /\ Len(Flushed) >= 1
         /\ Flushed[Len(Flushed)] = Len(Emitted)

\* C21: with a grid of at least 1 x 1 and feasible parameters, a call of a
\* tessellation (plain or tape, of any of the modules, the 8-direction one
\* of updated_yoshimora.py included) or of the shim sheet never raises, and
\* when it has returned at least one primitive is in the sink and the sink
\* was saved after the last of them.
C21_EntryPointsComplete ==
    (entry \in {"tesselation", "shim_sheet"}
       /\ GridAtLeastOne(tess) /\ FeasibleSheet(tess)) => CompletesFlushed

\* The same for the modules yoshimora_miura_plastic.py (plain and tape) and
\* yoshimora_miura_shim.py alone.
C21_PlasticAndShimComplete ==
    (entry \in {"tesselation", "shim_sheet"}
       /\ tess.module \in {"yoshimora_miura_plastic", "yoshimora_miura_shim"}
       /\ GridAtLeastOne(tess) /\ FeasibleSheet(tess)) => CompletesFlushed

\* The tape tessellation of yoshimora_miura_plastic.py has returned.
C21_PlasticWitness ==
    /\ entry = "tesselation" /\ pc = "done" /\ tess.tape
    /\ tess.module = "yoshimora_miura_plastic" /\ tess.size = <<2, 2>>
    /\ FeasibleSheet(tess) /\ Len(Emitted) >= 1
    /\ Flushed[Len(Flushed)] = Len(Emitted)

\* The 8-direction tessellation has raised at its first branch, with an
\* empty sink.
C21_UpdatedRaisesWitness ==
    /\ entry = "tesselation" /\ pc = "error"
    /\ tess.module = "updated_yoshimora" /\ GridAtLeastOne(tess)
    /\ pos = <<0, 0>> /\ d = 0 /\ Emitted = << >> /\ Flushed = << >>

\* The mask the tessellation t hands to the block of cell c.
MaskOf(t, c) == TesselationBlock(t, c).activated_branch

\* C25: in the 8-direction tessellation of updated_yoshimora.py, for every
\* pair of horizontally adjacent cells (i, j) and (i, j+1) of the grid, the
\* masks handed to the two blocks never activate both facing spine branches
\* (direction 0 of (i, j), at 0 degrees, and direction 4 of (i, j+1), at 180
\* degrees), and the mask of the cell being drawn is the one handed to it.
C25_SpineDrawnOnce ==
    (entry = "tesselation" /\ tess.module = "updated_yoshimora"
       /\ GridAtLeastOne(tess)) =>
        /\ \A c \in Cells(tess) :
             CellInGrid(tess, <<c[1], c[2] + 1>>) =>
                 ~(MaskOf(tess, c)[1] /\ MaskOf(tess, <<c[1], c[2] + 1>>)[5])
        /\ InCell => block.activated_branch = MaskOf(tess, pos)

\* What the code does: every block of the 8-direction tessellation is handed
\* eight True entries, whatever its position.
C25_AllTrueEverywhere ==
    (entry = "tesselation" /\ tess.module = "updated_yoshimora"
       /\ GridAtLeastOne(tess)) =>
        /\ \A c \in Cells(tess) : MaskOf(tess, c) = AllTrue(8)
        /\ InCell => block.activated_branch = AllTrue(8)

C25_AllTrueWitness ==
    /\ InCell /\ tess.module = "updated_yoshimora" /\ tess.size = <<2, 2>>
    /\ block.activated_branch = AllTrue(8)
    /\ MaskOf(tess, <<0, 1>>)[5]

\* The block of a cell of a shim sheet is being drawn.
InSheetCell ==
    entry = "shim_sheet" /\ pc \in {"shim_block_start", "center_loop", "sep_loop"}
\* The directions the position rules of the masks are written for: 0, theta,
\* 180 - theta, 180, 180 + theta, -theta (entries 0 and 3 the spine, the
\* others the diagonals), as the tessellation itself lists them.
RuleDirections ==
    IF entry = "shim_sheet" THEN tess.angles ELSE Directions(tess.angle)
\* The block being drawn has one mask entry per direction, and a six-entry
\* mask meets the six directions its rules are written for.
MaskMeetsDirections ==
    /\ Len(block.activated_branch) = Len(block.angles)
    /\ Len(block.activated_branch) = 6 =>
         \A k \in 1..6 : block.angles[k] = RuleDirections[k]

\* C26: whenever a tessellation (panel or shim) has handed a mask to the
\* block of a cell, the mask has as many entries as the block has
\* directions, and entry k of a position-rule mask governs the direction the
\* rule is written for.
C26_MaskLengthAndMeaning ==
    (InCell \/ InSheetCell) => MaskMeetsDirections

\* The same for the six-direction modules alone.
C26_SixDirectionModules ==
    ((InCell \/ InSheetCell)
       /\ tess.module \in {"yoshimora_miura_plastic", "draw_yoshimora",
                           "yoshimora_miura_shim"}) => MaskMeetsDirections

\* The shim sheet of updated_yoshimora_miura_shim.py hands masks of six
\* entries to blocks of eight directions: entry 2 then governs the branch at
\* 90 degrees, entry 3 the diagonal at 180 - theta.
C26_SixOverEight ==
    (InSheetCell /\ tess.module = "updated_yoshimora_miura_shim") =>
        /\ Len(block.activated_branch) = 6 /\ Len(block.angles) = 8
        /\ block.angles[3] = <<tess.angle, 0, 1>>
        /\ block.angles[4] = RuleDirections[3]
        /\ block.angles[5] = RuleDirections[4]

\* Cell (1, 1) of such a sheet has drawn its separators: none along
\* directions 1, 2 and 3, and none at all along directions 6 and 7.
C26_SixOverEightWitness ==
    /\ InSheetCell /\ tess.module = "updated_yoshimora_miura_shim"
    /\ tess.size = <<2, 2>> /\ tess.beam_count = 2
    /\ pos = <<1, 1>> /\ pc = "sep_loop" /\ d = 6
    /\ block.activated_branch = <<TRUE, FALSE, FALSE, FALSE, TRUE, TRUE>>
    /\ Len(SelectSeq(Emitted, LAMBDA e : e.ord[1] = PartSep
                                      /\ e.ctx = <<1, 1, 4>>)) = 1
    /\ \A n \in DOMAIN Emitted :
         Emitted[n].ord[1] = PartSep => Emitted[n].ctx[3] \notin {6, 7}

\* C29: when two generators are constructed without a drawing argument and
\* drawn one after the other, the sink of the second holds only what the
\* second generator has added and flushed: the beginning of its own output,
\* which for the same arguments is the output of the first.
C29_SinksIsolated ==
    SecondOnDefault =>
        /\ Len(sink) <= Len(prev[1])
        /\ sink = SubSeq(prev[1], 1, Len(sink))
        /\ Len(saves) <= Len(prev[2])
        /\ saves = SubSeq(prev[2], 1, Len(saves))

\* What the code does instead: the second generator's sink is the sink of the
\* first.  It begins with everything the first added and flushed, and when
\* the second returns or raises it holds the first's output twice.
C29_SecondSinkHoldsFirst ==
    SecondOnDefault =>
        /\ Len(sink) >= Len(prev[1])
        /\ SubSeq(sink, 1, Len(prev[1])) = prev[1]
        /\ Len(saves) >= Len(prev[2])
        /\ SubSeq(saves, 1, Len(prev[2])) = prev[2]
        /\ pc \in {"done", "error"} =>
               /\ sink = prev[1] \o prev[1]
               /\ saves = prev[2] \o Shifted(prev[2], Len(prev[1]))

\* The second of two 1 x 1 panel tessellations on the default drawing has
\* returned: 132 primitives, where each generator adds 66.
C29_SharedWitness ==
    /\ SecondOnDefault /\ entry = "tesselation" /\ pc = "done"
    /\ tess.module = "yoshimora_miura_plastic" /\ tess.size = <<1, 1>>
    /\ ~tess.tape /\ Len(prev[1]) = 66 /\ Len(sink) = 132

====
